---- MODULE Spec2Model ----
(***************************************************************************)
(* Identity & Trust Ledger of web4: the LCT identity primitive             *)
(* (web4-core/src/lct.rs) and the entity trust store                       *)
(* (web4-trust-core/src/storage, entity, tensor).                          *)
(*                                                                         *)
(* f64 scores are represented in fixed point: the integer v stands for     *)
(* v / Scale, products are divided back by Scale and truncated toward 0.   *)
(* Option<T> is a sequence of length 0 (None) or 1 (Some).                 *)
(* Strings that the code parses (entity ids) are sequences of characters.  *)
(***************************************************************************)
EXTENDS Integers, Sequences, FiniteSets, TLC

VARIABLES
    lcts,       \* the Lct objects alive in the process, in creation order
    lres,       \* what the last read-only Lct call returned
    entities,   \* InMemoryStore.entities: entity_id -> EntityTrust
    held,       \* the EntityTrust value the (single) caller holds, Option
    sres,       \* what the last TrustStore call returned
    streak,     \* the current run of identical store.witness calls
    nmut,       \* number of tensor-changing calls made so far
    now,        \* Utc::now(): every reading of the clock yields this instant
    lock,       \* the RwLock guarding entities: readers and writer
    th,         \* per thread: program counter and locals
    done,       \* per entity id: update calls that have returned
    proc,       \* the process running store.witness step by step
    wres,       \* how the last store.witness call of that process ended
    tens,       \* a web4-core T3 or V3 tensor held by a caller
    tres,       \* what the last call on that tensor was and returned
    tacc,       \* per root dimension: observe calls accepted since creation
    tops,       \* number of calls made on tensors so far
    cres,       \* the last check_coherence call: its arguments and result
    files,      \* FileStore's directory: file path -> JSON document
    pair,       \* a trust-core T3Tensor and V3Tensor held by a caller
    pres        \* the last call on that pair: its arguments and the pair before

vars == <<lcts, lres, entities, held, sres, streak, nmut, now, lock, th, done,
          proc, wres, tens, tres, tacc, tops, cres, files, pair, pres>>

lctVars == <<lcts, lres>>
storeVars == <<entities, held, sres, streak, nmut, now>>
concVars == <<lock, th, done>>
fileVars == <<proc, wres>>

(* the variables of the parts added after the identity and store parts *)
tensorVars == <<tens, tres, tacc, tops>>
cohVars == <<cres>>
dirVars == <<files>>
pairVars == <<pair, pres>>
restVars == <<fileVars, tensorVars, cohVars, dirVars, pairVars>>

----------------------------------------------------------------------------
(* Bounds of the model *)

MaxLcts == 2
MaxMut == 2
NThreads == 2
MaxCalls == 2

(* Fixed-point unit of the f64 scores *)
Scale == 10000

None == <<>>
Some(x) == <<x>>
IsSome(o) == Len(o) = 1
Unwrap(o) == o[1]

----------------------------------------------------------------------------
(* web4-core/src/lct.rs *)

EntityTypes ==
    {"Human", "AiSoftware", "AiEmbodied", "Organization", "Role", "Task",
     "Resource", "Hybrid"}

LctStatus == {"Active", "Dormant", "Void", "Slashed"}

(* the entity types the callers of the model pass *)
TypesUsed == {"AiSoftware"}

Messages == {"m1", "m2"}

(* A key pair is named by a number; key 0 belongs to no identity.  A
   signature made with key k over message m is the pair (k, m). *)
Sign(key, message) == [key |-> key, msg |-> message]

(* the signatures presented to an identity: made with its own key or with
   a key that is not its own, over either message *)
SignaturesFor(self) == {Sign(k, m) : k \in {self.public_key, 0}, m \in Messages}

PublicKeyVerify(public_key, message, signature) ==
    IF signature.key = public_key /\ signature.msg = message
    THEN "Ok" ELSE "SignatureInvalid"

HardwareBindingDefault == [level |-> 4, trust_ceiling |-> 8500]

HardwareBindingTpm == [level |-> 5, trust_ceiling |-> Scale]

(* Uuid::new_v4() and KeyPair::generate() are fresh: the next object index.
   ForeignUuid is the id of an identity that lives in another process. *)
FreshId == Len(lcts) + 1

ForeignUuid == 0

LctNew(entity_type, created_by) ==
    [id |-> FreshId,
     entity_type |-> entity_type,
     status |-> "Active",
     public_key |-> FreshId,
     created_at |-> now,
     created_by |-> created_by,
     hardware_binding |-> HardwareBindingDefault,
     parent_id |-> None,
     lineage_depth |-> 0]

LctCreateChild(self, entity_type) ==
    [id |-> FreshId,
     entity_type |-> entity_type,
     status |-> "Active",
     public_key |-> FreshId,
     created_at |-> now,
     created_by |-> Some(self.id),
     hardware_binding |-> HardwareBindingDefault,
     parent_id |-> Some(self.id),
     lineage_depth |-> self.lineage_depth + 1]

LctBuilderBuild(entity_type, created_by, parent_id, hardware_binding) ==
    [id |-> FreshId,
     entity_type |-> entity_type,
     status |-> "Active",
     public_key |-> FreshId,
     created_at |-> now,
     created_by |-> created_by,
     hardware_binding |->
        IF IsSome(hardware_binding) THEN Unwrap(hardware_binding)
        ELSE HardwareBindingDefault,
     parent_id |-> parent_id,
     lineage_depth |-> IF IsSome(parent_id) THEN 1 ELSE 0]

IsActive(self) == self.status = "Active"

VoidReactivates(self) ==
    [self EXCEPT !.status = IF self.status = "Active" THEN "Void" ELSE "Active"]

LctVoid(self) == [self EXCEPT !.status = "Void"]

LctSlash(self) == [self EXCEPT !.status = "Slashed"]

TrustCeiling(self) == self.hardware_binding.trust_ceiling

VerifyIgnoringStatus(self, message, signature) ==
    PublicKeyVerify(self.public_key, message, signature)

VerifySignature(self, message, signature) ==
    IF ~IsActive(self) THEN "LctVoided"
    ELSE PublicKeyVerify(self.public_key, message, signature)

(* sha256_hex is an external hash: the digest of key k is the pair below,
   of which the fingerprint shows the first and the last 8 characters *)
Fingerprint(self) ==
    [head |-> <<"sha256", self.public_key, "0..8">>,
     tail |-> <<"sha256", self.public_key, "56..">>]

CoherenceThreshold(self) ==
    CASE self.entity_type = "Human" -> 5000
      [] self.entity_type = "AiEmbodied" -> 6000
      [] self.entity_type = "AiSoftware" -> 7000
      [] self.entity_type = "Organization" -> 5000
      [] self.entity_type = "Role" -> 5000
      [] self.entity_type = "Task" -> 3000
      [] self.entity_type = "Resource" -> 3000
      [] self.entity_type = "Hybrid" -> 6000

LctIdx == 1..Len(lcts)

KnownIds == {lcts[i].id : i \in LctIdx}

OptIds == {None} \cup {Some(u) : u \in KnownIds \cup {ForeignUuid}}

NoLres == [op |-> "none", idx |-> 0]

New ==
    /\ Len(lcts) < MaxLcts
    /\ \E t \in TypesUsed, c \in {None, Some(ForeignUuid)} :
          lcts' = Append(lcts, LctNew(t, c))
    /\ lres' = NoLres
    /\ UNCHANGED <<storeVars, concVars, restVars>>

CreateChild ==
    /\ Len(lcts) < MaxLcts
    /\ \E i \in LctIdx, t \in TypesUsed :
          lcts' = Append(lcts, LctCreateChild(lcts[i], t))
    /\ lres' = NoLres
    /\ UNCHANGED <<storeVars, concVars, restVars>>

BuilderBuild ==
    /\ Len(lcts) < MaxLcts
    /\ \E t \in TypesUsed, p \in OptIds,
          h \in {None, Some(HardwareBindingTpm)} :
          lcts' = Append(lcts, LctBuilderBuild(t, p, p, h))
    /\ lres' = NoLres
    /\ UNCHANGED <<storeVars, concVars, restVars>>

(* Lct derives Deserialize and no method sets Dormant: a Dormant identity
   is a persisted identity, marked dormant, read back as a new object *)
Deserialize ==
    /\ Len(lcts) < MaxLcts
    /\ \E i \in LctIdx :
          lcts' = Append(lcts, [lcts[i] EXCEPT !.status = "Dormant"])
    /\ lres' = NoLres
    /\ UNCHANGED <<storeVars, concVars, restVars>>

Void ==
    \E i \in LctIdx :
        /\ lcts' = [lcts EXCEPT ![i] = LctVoid(lcts[i])]
        /\ lres' = [op |-> "void", idx |-> i]
        /\ UNCHANGED <<storeVars, concVars, restVars>>

Slash ==
    \E i \in LctIdx :
        /\ lcts' = [lcts EXCEPT ![i] = LctSlash(lcts[i])]
        /\ lres' = [op |-> "slash", idx |-> i]
        /\ UNCHANGED <<storeVars, concVars, restVars>>

CallVerifySignature ==
    \E i \in LctIdx : \E m \in {"m1"}, s \in SignaturesFor(lcts[i]) :
        /\ lres' = [op |-> "verify_signature", idx |-> i, msg |-> m,
                    sig |-> s, val |-> VerifySignature(lcts[i], m, s)]
        /\ UNCHANGED <<lcts, storeVars, concVars, restVars>>

CallTrustCeiling ==
    \E i \in LctIdx :
        /\ lres' = [op |-> "trust_ceiling", idx |-> i,
                    val |-> TrustCeiling(lcts[i])]
        /\ UNCHANGED <<lcts, storeVars, concVars, restVars>>

CallCoherenceThreshold ==
    \E i \in LctIdx :
        /\ lres' = [op |-> "coherence_threshold", idx |-> i,
                    val |-> CoherenceThreshold(lcts[i])]
        /\ UNCHANGED <<lcts, storeVars, concVars, restVars>>

CallFingerprint ==
    \E i \in LctIdx :
        /\ lres' = [op |-> "fingerprint", idx |-> i,
                    val |-> Fingerprint(lcts[i])]
        /\ UNCHANGED <<lcts, storeVars, concVars, restVars>>

LctNext ==
    \/ New
    \/ CreateChild
    \/ BuilderBuild
    \/ Deserialize
    \/ Void
    \/ Slash
    \/ CallVerifySignature
    \/ CallTrustCeiling
    \/ CallCoherenceThreshold
    \/ CallFingerprint

----------------------------------------------------------------------------
(* Fixed-point arithmetic standing for the f64 arithmetic of the tensors *)

Min(a, b) == IF a <= b THEN a ELSE b

Max(a, b) == IF a >= b THEN a ELSE b

(* division truncating toward zero *)
TDiv(a, b) == IF a >= 0 THEN a \div b ELSE -((-a) \div b)

(* f64::clamp(0.0, 1.0) *)
Clamp01(x) == Max(0, Min(x, Scale))

Abs(x) == IF x >= 0 THEN x ELSE -x

RECURSIVE FixPow(_, _)
(* f64::powf for a whole number of days *)
FixPow(base, n) == IF n = 0 THEN Scale ELSE TDiv(base * FixPow(base, n - 1), Scale)

----------------------------------------------------------------------------
(* web4-trust-core/src/tensor/t3.rs, v3.rs *)

T3Neutral == [talent |-> Scale \div 2, training |-> Scale \div 2,
              temperament |-> Scale \div 2]

V3Neutral == [valuation |-> Scale \div 2, veracity |-> Scale \div 2,
              validity |-> Scale \div 2]

(* an update whose failure step mirrors its success step *)
T3UpdateFromOutcomeSymmetric(self, success, magnitude) ==
    LET m == Clamp01(magnitude)
        delta == IF success
                 THEN TDiv(m * 5 * (Scale - self.training), 100 * Scale)
                 ELSE -TDiv(m * 5 * (Scale - self.training), 100 * Scale)
    IN [talent |-> Clamp01(self.talent + TDiv(delta * 3, 10)),
        training |-> Clamp01(self.training + delta),
        temperament |-> Clamp01(self.temperament + TDiv(delta * 5, 10))]

T3UpdateFromOutcome(self, success, magnitude) ==
    LET m == Clamp01(magnitude)
        delta == IF success
                 THEN TDiv(m * 5 * (Scale - self.training), 100 * Scale)
                 ELSE -TDiv(m * 10 * self.training, 100 * Scale)
    IN [talent |-> Clamp01(self.talent + TDiv(delta * 3, 10)),
        training |-> Clamp01(self.training + delta),
        temperament |-> Clamp01(self.temperament + TDiv(delta * 5, 10))]

(* decay_value without its final max *)
DecayValueNoFloor(current, decay_factor, factor1000) ==
    (3 * Scale) \div 10
      + TDiv(TDiv((current - (3 * Scale) \div 10) * decay_factor, Scale)
               * factor1000, 1000)

(* decay_value closure of apply_decay: floor 0.3, factor in thousandths *)
DecayValue(current, decay_factor, factor1000) ==
    LET floor == (3 * Scale) \div 10
        decayed == floor + TDiv(TDiv((current - floor) * decay_factor, Scale)
                                  * factor1000, 1000)
    IN Max(decayed, floor)

T3ApplyDecay(self, days_inactive, decay_rate) ==
    IF days_inactive <= 0 THEN self
    ELSE LET decay_factor == FixPow(Scale - decay_rate, days_inactive)
         IN [talent |-> DecayValue(self.talent, decay_factor, 995),
             training |-> DecayValue(self.training, decay_factor, 1000),
             temperament |-> DecayValue(self.temperament, decay_factor, 980)]

(* the bool apply_decay returns: training moved by more than 0.001 *)
T3DecayOccurred(self, days_inactive, decay_rate) ==
    /\ days_inactive > 0
    /\ Abs(self.training - T3ApplyDecay(self, days_inactive, decay_rate).training)
          > Scale \div 1000

T3UpdateTemperamentFromWitness(self, success, magnitude) ==
    LET delta == IF success
                 THEN TDiv(magnitude * 3 * (Scale - self.temperament), 100 * Scale)
                 ELSE -TDiv(magnitude * 5 * self.temperament, 100 * Scale)
    IN [self EXCEPT !.temperament = Clamp01(self.temperament + delta)]

T3UpdateTemperamentFromAlignment(self, success, magnitude) ==
    LET delta == IF success
                 THEN TDiv(magnitude * 2 * (Scale - self.temperament), 100 * Scale)
                 ELSE TDiv(magnitude * 1 * (Scale - self.temperament), 100 * Scale)
    IN [self EXCEPT !.temperament = Clamp01(self.temperament + delta)]

V3AddValuation(self, amount) ==
    [self EXCEPT !.valuation = Min(self.valuation + amount, Scale)]

V3AddContribution(self, amount) ==
    [self EXCEPT !.valuation = Min(self.valuation + amount, Scale)]

V3GrowValidity(self, amount) ==
    [self EXCEPT !.validity = Min(self.validity + amount, Scale)]

V3UpdateVeracity(self, success, magnitude) ==
    LET delta == IF success
                 THEN TDiv(magnitude * 8 * (Scale - self.veracity), 10 * Scale)
                 ELSE -TDiv(magnitude * 5 * self.veracity, 10 * Scale)
    IN [self EXCEPT !.veracity = Clamp01(self.veracity + delta)]

V3ApplyDecay(self, days_inactive, decay_rate) ==
    IF days_inactive <= 0 THEN self
    ELSE LET decay_factor == FixPow(Scale - decay_rate, days_inactive)
         IN [valuation |-> DecayValue(self.valuation, decay_factor, 990),
             veracity |-> self.veracity,
             validity |-> DecayValue(self.validity, decay_factor, 1000)]

----------------------------------------------------------------------------
(* web4-trust-core/src/entity/trust.rs *)

(* str::find(':'): the index of the first ':' or 0 *)
FindColon(str) ==
    IF \E i \in 1..Len(str) : str[i] = ":"
    THEN CHOOSE i \in 1..Len(str) :
            str[i] = ":" /\ \A j \in 1..(i - 1) : str[j] # ":"
    ELSE 0

ParseEntityId(entity_id) ==
    LET idx == FindColon(entity_id)
    IN IF idx > 0
       THEN [type |-> SubSeq(entity_id, 1, idx - 1),
             name |-> SubSeq(entity_id, idx + 1, Len(entity_id))]
       ELSE [type |-> <<>>, name |-> entity_id]

Contains(vec, x) == \E i \in 1..Len(vec) : vec[i] = x

Occurrences(vec, x) == Cardinality({i \in 1..Len(vec) : vec[i] = x})

EntityTrustNew(entity_id, utc_now) ==
    [entity_id |-> entity_id,
     entity_type |-> ParseEntityId(entity_id).type,
     entity_name |-> ParseEntityId(entity_id).name,
     t3 |-> T3Neutral,
     v3 |-> V3Neutral,
     witnessed_by |-> <<>>,
     has_witnessed |-> <<>>,
     action_count |-> 0,
     success_count |-> 0,
     witness_count |-> 0,
     last_action |-> None,
     created_at |-> utc_now]

(* an update that counts the successes but not the actions *)
UpdateFromOutcomeUncounted(self, success, magnitude, utc_now) ==
    [self EXCEPT
        !.success_count = IF success THEN @ + 1 ELSE @,
        !.t3 = T3UpdateFromOutcome(@, success, magnitude),
        !.v3 = V3AddValuation(@, Scale \div 100),
        !.last_action = Some(utc_now)]

UpdateFromOutcome(self, success, magnitude, utc_now) ==
    [self EXCEPT
        !.action_count = @ + 1,
        !.success_count = IF success THEN @ + 1 ELSE @,
        !.t3 = T3UpdateFromOutcome(@, success, magnitude),
        !.v3 = V3AddValuation(@, Scale \div 100),
        !.last_action = Some(utc_now)]

ReceiveWitnessAlwaysPush(self, witness_id, success, magnitude) ==
    [self EXCEPT
        !.witness_count = @ + 1,
        !.witnessed_by = Append(@, witness_id),
        !.t3 = T3UpdateTemperamentFromWitness(@, success, magnitude),
        !.v3 = V3GrowValidity(V3UpdateVeracity(@, success, magnitude),
                              Scale \div 100)]

ReceiveWitness(self, witness_id, success, magnitude) ==
    [self EXCEPT
        !.witness_count = @ + 1,
        !.witnessed_by = IF ~Contains(@, witness_id)
                         THEN Append(@, witness_id) ELSE @,
        !.t3 = T3UpdateTemperamentFromWitness(@, success, magnitude),
        !.v3 = V3GrowValidity(V3UpdateVeracity(@, success, magnitude),
                              Scale \div 100)]

GiveWitness(self, target_id, success, magnitude) ==
    [self EXCEPT
        !.has_witnessed = IF ~Contains(@, target_id)
                          THEN Append(@, target_id) ELSE @,
        !.t3 = T3UpdateTemperamentFromAlignment(@, success, magnitude),
        !.v3 = V3AddContribution(@, Scale \div 200)]

ApplyDecay(self, days_inactive, decay_rate) ==
    [self EXCEPT
        !.t3 = T3ApplyDecay(@, days_inactive, decay_rate),
        !.v3 = V3ApplyDecay(@, days_inactive, decay_rate)]

----------------------------------------------------------------------------
(* web4-trust-core/src/entity/types.rs *)

EntityTypeKinds == {"Mcp", "Role", "Session", "Reference", "Lct", "Other"}

TypePrefix(kind) ==
    CASE kind = "Mcp" -> <<"m", "c", "p">>
      [] kind = "Role" -> <<"r", "o", "l", "e">>
      [] kind = "Session" -> <<"s", "e", "s", "s", "i", "o", "n">>
      [] kind = "Reference" -> <<"r", "e", "f">>
      [] kind = "Lct" -> <<"l", "c", "t">>
      [] kind = "Other" -> <<"o", "t", "h", "e", "r">>

StartsWith(str, prefix) ==
    /\ Len(str) >= Len(prefix)
    /\ SubSeq(str, 1, Len(prefix)) = prefix

----------------------------------------------------------------------------
(* web4-trust-core/src/storage/memory.rs and traits.rs.  Every operation
   takes the map and yields the map it leaves and the value it returns. *)

EmptyMap == [x \in {} |-> x]

StoreSaveIfAbsent(map, trust) ==
    [map |-> [x \in DOMAIN map \cup {trust.entity_id} |->
                 IF x \in DOMAIN map THEN map[x] ELSE trust],
     ret |-> "Ok"]

StoreSave(map, trust) ==
    [map |-> [x \in DOMAIN map \cup {trust.entity_id} |->
                 IF x = trust.entity_id THEN trust ELSE map[x]],
     ret |-> "Ok"]

StoreGetNoPersist(map, entity_id, utc_now) ==
    IF entity_id \in DOMAIN map
    THEN [map |-> map, ret |-> map[entity_id]]
    ELSE [map |-> map, ret |-> EntityTrustNew(entity_id, utc_now)]

StoreGet(map, entity_id, utc_now) ==
    IF entity_id \in DOMAIN map
    THEN [map |-> map, ret |-> map[entity_id]]
    ELSE LET trust == EntityTrustNew(entity_id, utc_now)
         IN [map |-> StoreSave(map, trust).map, ret |-> trust]

StoreGetExistingCreates(map, entity_id, utc_now) ==
    [map |-> StoreGet(map, entity_id, utc_now).map,
     ret |-> Some(StoreGet(map, entity_id, utc_now).ret)]

(* utc_now is not read: get_existing creates nothing *)
StoreGetExisting(map, entity_id, utc_now) ==
    [map |-> map,
     ret |-> IF entity_id \in DOMAIN map THEN Some(map[entity_id]) ELSE None]

StoreDelete(map, entity_id) ==
    [map |-> [x \in DOMAIN map \ {entity_id} |-> map[x]],
     ret |-> entity_id \in DOMAIN map]

StoreExists(map, entity_id) ==
    [map |-> map, ret |-> entity_id \in DOMAIN map]

StoreListIdsUnfiltered(map, entity_type) == DOMAIN map

(* the ids list returns, as a set: the HashMap's key order is unspecified *)
StoreListIds(map, entity_type) ==
    IF IsSome(entity_type)
    THEN {id \in DOMAIN map :
             StartsWith(id, TypePrefix(Unwrap(entity_type)) \o <<":">>)}
    ELSE DOMAIN map

StoreUpdate(map, entity_id, success, magnitude, utc_now) ==
    LET got == StoreGet(map, entity_id, utc_now)
        trust == UpdateFromOutcome(got.ret, success, magnitude, utc_now)
    IN [map |-> StoreSave(got.map, trust).map, ret |-> trust]

StoreWitness(map, witness_id, target_id, success, magnitude, utc_now) ==
    LET got1 == StoreGet(map, target_id, utc_now)
        target == ReceiveWitness(got1.ret, witness_id, success, magnitude)
        map1 == StoreSave(got1.map, target).map
        got2 == StoreGet(map1, witness_id, utc_now)
        witness == GiveWitness(got2.ret, target_id, success, magnitude)
        map2 == StoreSave(got2.map, witness).map
    IN [map |-> map2, ret |-> [witness |-> witness, target |-> target]]

(* EntityTrust derives Clone: the value handed over shares nothing with the
   value it was cloned from *)
EntityTrustShare(trust) == [rec |-> trust, alias |-> TRUE]

EntityTrustClone(trust) == [rec |-> trust, alias |-> FALSE]

----------------------------------------------------------------------------
(* A single caller of the in-memory store *)

IdMcpA == <<"m", "c", "p", ":", "a">>

IdRoleX == <<"r", "o", "l", "e", ":", "x">>

EntityIds == {IdMcpA, IdRoleX}

(* magnitude 0.1, as the callers in the tests pass *)
Magnitudes == {Scale \div 10}

DecayDays == {0, 30}

(* decay_rate 0.01 per day *)
DecayRates == {Scale \div 100}

NoStreak == [n |-> 0]

(* a value the caller built itself *)
Owned(trust) == [rec |-> trust, alias |-> FALSE]

(* a change of the caller's value reaches the map only if the two share
   storage, which a clone never does *)
WriteThrough(map, handle, trust) ==
    IF handle.alias /\ trust.entity_id \in DOMAIN map
    THEN [map EXCEPT ![trust.entity_id] = trust]
    ELSE map

Get ==
    \E id \in EntityIds :
        LET r == StoreGet(entities, id, now) IN
        /\ entities' = r.map
        /\ held' = Some(EntityTrustClone(r.ret))
        /\ sres' = [op |-> "get", id |-> id, created |-> id \notin DOMAIN entities]
        /\ streak' = NoStreak
        /\ UNCHANGED <<nmut, now, lctVars, restVars, concVars>>

GetExisting ==
    \E id \in EntityIds :
        LET r == StoreGetExisting(entities, id, now) IN
        /\ entities' = r.map
        /\ held' = IF IsSome(r.ret) THEN Some(EntityTrustClone(Unwrap(r.ret)))
                   ELSE held
        /\ sres' = [op |-> "get_existing", id |-> id, found |-> IsSome(r.ret)]
        /\ UNCHANGED <<streak, nmut, now, lctVars, restVars, concVars>>

Save ==
    /\ IsSome(held)
    /\ LET trust == Unwrap(held).rec
           r == StoreSave(entities, trust) IN
        /\ entities' = r.map
        /\ held' = Some(EntityTrustClone(trust))
        /\ sres' = [op |-> "save", id |-> trust.entity_id,
                    same |-> /\ trust.entity_id \in DOMAIN entities
                             /\ entities[trust.entity_id] = trust]
    /\ streak' = NoStreak
    /\ UNCHANGED <<nmut, now, lctVars, restVars, concVars>>

Delete ==
    \E id \in EntityIds :
        LET r == StoreDelete(entities, id) IN
        /\ entities' = r.map
        /\ sres' = [op |-> "delete", id |-> id, existed |-> r.ret]
        /\ streak' = NoStreak
        /\ UNCHANGED <<held, nmut, now, lctVars, restVars, concVars>>

Update ==
    /\ nmut < MaxMut
    /\ \E id \in EntityIds, success \in BOOLEAN, m \in Magnitudes :
        LET r == StoreUpdate(entities, id, success, m, now) IN
        /\ entities' = r.map
        /\ held' = Some(EntityTrustClone(r.ret))
        /\ sres' = [op |-> "update", id |-> id, success |-> success]
    /\ nmut' = nmut + 1
    /\ streak' = NoStreak
    /\ UNCHANGED <<now, lctVars, restVars, concVars>>

Witness ==
    /\ nmut < MaxMut
    /\ \E w \in EntityIds, t \in EntityIds, success \in BOOLEAN, m \in Magnitudes :
        LET r == StoreWitness(entities, w, t, success, m, now) IN
        /\ entities' = r.map
        /\ held' = Some(EntityTrustClone(r.ret.target))
        /\ sres' = [op |-> "witness", witness_id |-> w, target_id |-> t,
                    witness |-> r.ret.witness, target |-> r.ret.target]
        /\ streak' =
              IF streak.n > 0 /\ streak.w = w /\ streak.t = t
              THEN [streak EXCEPT !.n = @ + 1]
              ELSE [n |-> 1, w |-> w, t |-> t,
                    base |-> IF t \in DOMAIN entities
                             THEN entities[t].witness_count ELSE 0]
    /\ nmut' = nmut + 1
    /\ UNCHANGED <<now, lctVars, restVars, concVars>>

(* EntityTrust::new called by the caller itself, as test_save_and_get does *)
LocalNew ==
    \E id \in EntityIds :
        /\ held' = Some(Owned(EntityTrustNew(id, now)))
        /\ sres' = [op |-> "new", id |-> id]
        /\ UNCHANGED <<entities, streak, nmut, now, lctVars, restVars, concVars>>

(* the caller changes the value it holds to trust *)
Mutate(fn, trust) ==
    /\ held' = Some([Unwrap(held) EXCEPT !.rec = trust])
    /\ entities' = WriteThrough(entities, Unwrap(held), trust)
    /\ sres' = [op |-> "local", fn |-> fn]
    /\ nmut' = nmut + 1
    /\ UNCHANGED <<streak, now, lctVars, restVars, concVars>>

LocalUpdateFromOutcome ==
    /\ IsSome(held) /\ nmut < MaxMut
    /\ \E success \in BOOLEAN, m \in Magnitudes :
          Mutate("update_from_outcome",
                 UpdateFromOutcome(Unwrap(held).rec, success, m, now))

LocalReceiveWitness ==
    /\ IsSome(held) /\ nmut < MaxMut
    /\ \E w \in EntityIds, success \in {TRUE}, m \in Magnitudes :
          Mutate("receive_witness",
                 ReceiveWitness(Unwrap(held).rec, w, success, m))

LocalGiveWitness ==
    /\ IsSome(held) /\ nmut < MaxMut
    /\ \E t \in EntityIds, success \in {TRUE}, m \in Magnitudes :
          Mutate("give_witness", GiveWitness(Unwrap(held).rec, t, success, m))

LocalApplyDecay ==
    /\ IsSome(held) /\ nmut < MaxMut
    /\ \E days \in DecayDays, rate \in DecayRates :
          Mutate("apply_decay", ApplyDecay(Unwrap(held).rec, days, rate))

StoreNext ==
    \/ Get
    \/ GetExisting
    \/ Save
    \/ Delete
    \/ Update
    \/ Witness
    \/ LocalNew
    \/ LocalUpdateFromOutcome
    \/ LocalReceiveWitness
    \/ LocalGiveWitness
    \/ LocalApplyDecay

----------------------------------------------------------------------------
(* Threads sharing one InMemoryStore.  A call is a sequence of steps, one
   per acquisition of the RwLock and one per critical section; the guard of
   a critical section is dropped at its end. *)

Threads == 1..NThreads

IdleThread(calls) == [pc |-> "idle", calls |-> calls]

NoDone == [calls |-> 0, successes |-> 0]

DoneOf(id) == IF id \in DOMAIN done THEN done[id] ELSE NoDone

RECURSIVE SumCalls(_)
SumCalls(n) == IF n = 0 THEN 0 ELSE th[n].calls + SumCalls(n - 1)

(* the calls entered so far by all threads *)
CallsMade == SumCalls(NThreads)

(* RwLock::read: shared, granted while no writer holds the lock *)
CanRead == lock.writer = 0

(* RwLock::write: exclusive, granted while nobody holds the lock *)
CanWrite == lock.writer = 0 /\ lock.readers = {}

(* store.update(entity_id, success, magnitude) is entered: its first
   statement is self.get(entity_id) *)
CallUpdate(t) ==
    /\ th[t].pc = "idle" /\ CallsMade < MaxCalls
    /\ \E id \in EntityIds, success \in BOOLEAN, m \in Magnitudes :
          th' = [th EXCEPT ![t] =
                    [pc |-> "get_read", calls |-> th[t].calls + 1,
                     op |-> "update", id |-> id, success |-> success,
                     magnitude |-> m, trust |-> None]]
    /\ UNCHANGED <<lock, done, storeVars, lctVars, restVars>>

(* store.get(entity_id) is entered by a thread *)
CallGet(t) ==
    /\ th[t].pc = "idle" /\ CallsMade < MaxCalls
    /\ \E id \in EntityIds :
          th' = [th EXCEPT ![t] =
                    [pc |-> "get_read", calls |-> th[t].calls + 1,
                     op |-> "get", id |-> id, success |-> FALSE,
                     magnitude |-> 0, trust |-> None]]
    /\ UNCHANGED <<lock, done, storeVars, lctVars, restVars>>

(* where a thread continues when its get returns: a plain get returns to
   the caller, the get inside update is followed by the mutation *)
AfterGet(t) ==
    IF th[t].op = "get" THEN IdleThread(th[t].calls)
    ELSE [th[t] EXCEPT !.pc = "mutate"]

(* get: self.entities.read() *)
GetAcquireRead(t) ==
    /\ th[t].pc = "get_read" /\ CanRead
    /\ lock' = [lock EXCEPT !.readers = @ \cup {t}]
    /\ th' = [th EXCEPT ![t].pc = "get_lookup"]
    /\ UNCHANGED <<done, storeVars, lctVars, restVars>>

(* a lookup that keeps its read guard when it goes on to save *)
GetLookupKeepingGuard(t) ==
    /\ th[t].pc = "get_lookup"
    /\ lock' = IF th[t].id \in DOMAIN entities
               THEN [lock EXCEPT !.readers = @ \ {t}]
               ELSE lock
    /\ th' = [th EXCEPT ![t] =
                IF th[t].id \in DOMAIN entities
                THEN IF th[t].op = "get" THEN IdleThread(th[t].calls)
                     ELSE [@ EXCEPT !.pc = "mutate",
                                    !.trust = Some(entities[th[t].id])]
                ELSE [@ EXCEPT !.pc = "get_save_write",
                               !.trust = Some(EntityTrustNew(th[t].id, now))]]
    /\ UNCHANGED <<done, storeVars, lctVars, restVars>>

(* get: the lookup under the read lock.  On a hit the clone is returned and
   the guard dropped; on a miss the guard is dropped, EntityTrust::new
   builds the neutral record and save is entered. *)
GetLookup(t) ==
    /\ th[t].pc = "get_lookup"
    /\ lock' = [lock EXCEPT !.readers = @ \ {t}]
    /\ th' = [th EXCEPT ![t] =
                IF th[t].id \in DOMAIN entities
                THEN IF th[t].op = "get" THEN IdleThread(th[t].calls)
                     ELSE [@ EXCEPT !.pc = "mutate",
                                    !.trust = Some(entities[th[t].id])]
                ELSE [@ EXCEPT !.pc = "get_save_write",
                               !.trust = Some(EntityTrustNew(th[t].id, now))]]
    /\ UNCHANGED <<done, storeVars, lctVars, restVars>>

(* save: self.entities.write(), inside get or as the last call of update *)
SaveAcquireWrite(t) ==
    /\ th[t].pc \in {"get_save_write", "save_write"} /\ CanWrite
    /\ lock' = [lock EXCEPT !.writer = t]
    /\ th' = [th EXCEPT ![t].pc =
                IF th[t].pc = "get_save_write" THEN "get_save_insert"
                ELSE "save_insert"]
    /\ UNCHANGED <<done, storeVars, lctVars, restVars>>

(* save inside get: insert, drop the guard, get returns the new record *)
GetSaveInsert(t) ==
    /\ th[t].pc = "get_save_insert"
    /\ entities' = StoreSave(entities, Unwrap(th[t].trust)).map
    /\ lock' = [lock EXCEPT !.writer = 0]
    /\ th' = [th EXCEPT ![t] = AfterGet(t)]
    /\ UNCHANGED <<done, held, sres, streak, nmut, now, lctVars, restVars>>

(* update: trust.update_from_outcome(success, magnitude) on the local value *)
MutateLocal(t) ==
    /\ th[t].pc = "mutate"
    /\ th' = [th EXCEPT ![t].pc = "save_write",
                        ![t].trust = Some(UpdateFromOutcome(Unwrap(th[t].trust),
                                             th[t].success, th[t].magnitude, now))]
    /\ UNCHANGED <<lock, done, storeVars, lctVars, restVars>>

(* update: self.save(&trust): insert, drop the guard, update returns *)
SaveInsert(t) ==
    /\ th[t].pc = "save_insert"
    /\ entities' = StoreSave(entities, Unwrap(th[t].trust)).map
    /\ lock' = [lock EXCEPT !.writer = 0]
    /\ done' = [x \in DOMAIN done \cup {th[t].id} |->
                  IF x = th[t].id
                  THEN [calls |-> DoneOf(x).calls + 1,
                        successes |-> DoneOf(x).successes
                                        + IF th[t].success THEN 1 ELSE 0]
                  ELSE done[x]]
    /\ th' = [th EXCEPT ![t] = IdleThread(th[t].calls)]
    /\ UNCHANGED <<held, sres, streak, nmut, now, lctVars, restVars>>

ConcNext ==
    \E t \in Threads :
        \/ CallUpdate(t)
        \/ CallGet(t)
        \/ GetAcquireRead(t)
        \/ GetLookup(t)
        \/ SaveAcquireWrite(t)
        \/ GetSaveInsert(t)
        \/ MutateLocal(t)
        \/ SaveInsert(t)

----------------------------------------------------------------------------
(* store.witness run step by step by one process over a store that outlives
   the process (FileStore).  A step is one TrustStore call of the body of
   witness; a file is written whole or not at all.  The process may crash
   between steps, and a file-system call may fail, in which case the `?`
   after it returns the error to the caller of witness. *)

MaxWitnessCalls == 2

IdleProc(calls) == [pc |-> "idle", calls |-> calls]

(* witness with its two blocks swapped *)
WitnessPlanWitnessFirst(witness_id, target_id) ==
    <<[id |-> witness_id, role |-> "witness"],
      [id |-> target_id, role |-> "target"]>>

(* the two get / mutate / save blocks of witness, in program order *)
WitnessPlan(witness_id, target_id) ==
    <<[id |-> target_id, role |-> "target"],
      [id |-> witness_id, role |-> "witness"]>>

(* the block the process is in *)
CurrentBlock == WitnessPlan(proc.witness_id, proc.target_id)[proc.k]

(* everything a step of witness leaves alone besides the store and the
   process *)
fileFrame == <<held, sres, streak, nmut, now, lctVars, concVars, tensorVars,
               cohVars, dirVars, pairVars>>

CallWitness ==
    /\ proc.pc = "idle" /\ proc.calls < MaxWitnessCalls
    /\ \E w \in EntityIds, t \in EntityIds, m \in Magnitudes :
          /\ proc' = [pc |-> "get", calls |-> proc.calls + 1,
                      witness_id |-> w, target_id |-> t, success |-> TRUE,
                      magnitude |-> m, k |-> 1, trust |-> None]
          /\ wres' = [outcome |-> "running", witness_id |-> w,
                      target_id |-> t, before |-> entities]
    /\ UNCHANGED <<entities, fileFrame>>

(* let mut x = self.get(id)?  (FileStore::get: read the file, or create the
   neutral record and write it) *)
WitnessStepGet ==
    /\ proc.pc = "get"
    /\ LET r == StoreGet(entities, CurrentBlock.id, now) IN
          /\ entities' = r.map
          /\ proc' = [proc EXCEPT !.pc = "save", !.trust = Some(r.ret)]
    /\ UNCHANGED <<wres, fileFrame>>

(* x.receive_witness(..) or x.give_witness(..); self.save(&x)?  After the
   second block witness returns Ok. *)
WitnessStepSave ==
    /\ proc.pc = "save"
    /\ LET x == Unwrap(proc.trust)
           mutated == IF CurrentBlock.role = "target"
                      THEN ReceiveWitness(x, proc.witness_id, proc.success,
                                          proc.magnitude)
                      ELSE GiveWitness(x, proc.target_id, proc.success,
                                       proc.magnitude)
       IN entities' = StoreSave(entities, mutated).map
    /\ IF proc.k = 2
       THEN /\ proc' = IdleProc(proc.calls)
            /\ wres' = [wres EXCEPT !.outcome = "ok"]
       ELSE /\ proc' = [proc EXCEPT !.pc = "get", !.k = 2, !.trust = None]
            /\ UNCHANGED wres
    /\ UNCHANGED fileFrame

(* fs::read_to_string or fs::write of the current step fails: witness
   returns the error, nothing is written by this step *)
WitnessIoError ==
    /\ proc.pc \in {"get", "save"}
    /\ proc' = IdleProc(proc.calls)
    /\ wres' = [wres EXCEPT !.outcome = "err"]
    /\ UNCHANGED <<entities, fileFrame>>

(* the process dies between two steps; the files stay as they are *)
Crash ==
    /\ proc.pc \in {"get", "save"}
    /\ proc' = IdleProc(proc.calls)
    /\ wres' = [wres EXCEPT !.outcome = "crash"]
    /\ UNCHANGED <<entities, fileFrame>>

FileNext ==
    \/ CallWitness
    \/ WitnessStepGet
    \/ WitnessStepSave
    \/ WitnessIoError
    \/ Crash

----------------------------------------------------------------------------
(* A single caller that passes arbitrary strings as entity ids *)

(* an id without the type:name separator *)
IdNoColon == <<"b", "a", "d">>

AnyIds == {IdMcpA, IdNoColon}

(* the check of EntityType::from_entity_id: splitn(2, ':') yields one part *)
InvalidEntityId(entity_id) == FindColon(entity_id) = 0

(* the store calls below return Ok on every path: neither InMemoryStore nor
   EntityTrust::new calls EntityType::from_entity_id *)
GetAny ==
    \E id \in AnyIds :
        LET r == StoreGet(entities, id, now) IN
        /\ entities' = r.map
        /\ held' = Some(EntityTrustClone(r.ret))
        /\ sres' = [op |-> "get", ids |-> {id}, err |-> FALSE]
        /\ UNCHANGED <<streak, nmut, now, lctVars, restVars, concVars>>

UpdateAny ==
    /\ nmut < MaxMut
    /\ \E id \in AnyIds, success \in BOOLEAN, m \in Magnitudes :
        LET r == StoreUpdate(entities, id, success, m, now) IN
        /\ entities' = r.map
        /\ held' = Some(EntityTrustClone(r.ret))
        /\ sres' = [op |-> "update", ids |-> {id}, err |-> FALSE]
    /\ nmut' = nmut + 1
    /\ UNCHANGED <<streak, now, lctVars, restVars, concVars>>

WitnessAny ==
    /\ nmut < MaxMut
    /\ \E w \in AnyIds, t \in AnyIds, m \in Magnitudes :
        LET r == StoreWitness(entities, w, t, TRUE, m, now) IN
        /\ entities' = r.map
        /\ held' = Some(EntityTrustClone(r.ret.target))
        /\ sres' = [op |-> "witness", ids |-> {w, t}, err |-> FALSE]
    /\ nmut' = nmut + 1
    /\ UNCHANGED <<streak, now, lctVars, restVars, concVars>>

IdsNext ==
    \/ GetAny
    \/ UpdateAny
    \/ WitnessAny

----------------------------------------------------------------------------
(* web4-core/src/t3.rs and v3.rs: the tensors with confidence weights.  T3
   and V3 have the same fields and, line for line, the same new,
   with_scores, observe, observe_sub_dimension, merge and decay; they differ
   in aggregate.  A tensor is a record whose kind says which of the two
   structs it is. *)

MaxTensorOps == 4

Half == Scale \div 2

Dims == 1..3

TensorKinds == {"T3", "V3"}

TensorNew(kind) ==
    [kind |-> kind,
     dimensions |-> <<Half, Half, Half>>,
     weights |-> <<0, 0, 0>>,
     observation_counts |-> <<0, 0, 0>>,
     sub_dimensions |-> EmptyMap]

(* (0.0..=1.0).contains(&score) *)
InUnitRange(score) == 0 <= score /\ score <= Scale

(* Result<Self>: err, or the tensor *)
TensorWithScores(kind, scores) ==
    IF \E i \in Dims : ~InUnitRange(scores[i])
    THEN [err |-> TRUE]
    ELSE [err |-> FALSE,
          tensor |-> [TensorNew(kind) EXCEPT !.dimensions = scores]]

(* an update that adds half the observation to the old score *)
EmaWithoutAverage(old, observed_score, count) ==
    old + TDiv(observed_score, 2)

(* alpha * observed + (1 - alpha) * old with alpha = 0.5 / (1 + count / 10),
   that is (5 * observed + (5 + count) * old) / (10 + count) *)
Ema(old, observed_score, count) ==
    TDiv(5 * observed_score + (5 + count) * old, 10 + count)

(* (1.0 + count as f64).ln() / 10.0_f64.ln(), then .min(1.0) *)
WeightOf(count) ==
    CASE count = 0 -> 0
      [] count = 1 -> 3010
      [] count = 2 -> 4771
      [] count = 3 -> 6020
      [] count = 4 -> 6989
      [] count = 5 -> 7781
      [] count = 6 -> 8450
      [] count = 7 -> 9030
      [] count = 8 -> 9542
      [] OTHER -> Scale

(* observe without its range check *)
TensorObserveUnchecked(self, dimension, observed_score) ==
    LET count == self.observation_counts[dimension] IN
    [err |-> FALSE,
     tensor |-> [self EXCEPT
        !.dimensions[dimension] = Ema(@, observed_score, count),
        !.observation_counts[dimension] = count + 1,
        !.weights[dimension] = Min(WeightOf(count + 1), Scale)]]

(* observe: Result<()> and the tensor after the call *)
TensorObserve(self, dimension, observed_score) ==
    IF ~InUnitRange(observed_score)
    THEN [err |-> TRUE, tensor |-> self]
    ELSE LET count == self.observation_counts[dimension] IN
         [err |-> FALSE,
          tensor |-> [self EXCEPT
             !.dimensions[dimension] = Ema(@, observed_score, count),
             !.observation_counts[dimension] = count + 1,
             !.weights[dimension] = Min(WeightOf(count + 1), Scale)]]

SubDimensionOrInsert(self, name, parent) ==
    IF name \in DOMAIN self.sub_dimensions THEN self.sub_dimensions[name]
    ELSE [score |-> Half, weight |-> 0, observation_count |-> 0,
          parent |-> parent]

TensorObserveSubDimension(self, name, parent, observed_score) ==
    IF ~InUnitRange(observed_score)
    THEN [err |-> TRUE, tensor |-> self]
    ELSE LET entry == SubDimensionOrInsert(self, name, parent)
             updated == [entry EXCEPT
                 !.score = Ema(@, observed_score, entry.observation_count),
                 !.observation_count = @ + 1,
                 !.weight = Min(WeightOf(entry.observation_count + 1), Scale)]
         IN [err |-> FALSE,
             tensor |-> [self EXCEPT !.sub_dimensions =
                 [n \in DOMAIN @ \cup {name} |->
                     IF n = name THEN updated ELSE @[n]]]]

(* the value a call of aggregate returns *)
Value(x) == [known |-> TRUE, val |-> x]

SumWeights(self) == self.weights[1] + self.weights[2] + self.weights[3]

(* aggregate without the zero-weight case *)
T3AggregateAlwaysMean(self) ==
    [known |-> FALSE, geometric_mean_of |-> self.dimensions,
     weighted_by |-> self.weights]

(* the least score among the dimensions that carry weight *)
LeastWeighted(self) ==
    LET weighted == {d \in Dims : self.weights[d] > 0}
    IN CHOOSE x \in {self.dimensions[d] : d \in weighted} :
          \A d \in weighted : x <= self.dimensions[d]

(* T3::aggregate: 0.5 when the weights sum to 0, otherwise the weighted
   geometric mean exp(sum(w * ln(score + 1e-10)) / total_weight), which is
   kept as a term over its arguments.  ln of a negative score is NaN; with
   no negative score the exponent is a weighted mean of the ln(score + 1e-10)
   of the weighted dimensions, so the result is at least the least weighted
   score plus 1e-10: strictly above that score. *)
T3Aggregate(self) ==
    IF SumWeights(self) = 0 THEN Value(Half)
    ELSE [known |-> FALSE, geometric_mean_of |-> self.dimensions,
          weighted_by |-> self.weights,
          nan |-> \E d \in Dims : self.dimensions[d] < 0,
          above |-> LeastWeighted(self)]

(* V3::aggregate: 0.5 when the weights sum to 0, otherwise the weighted
   arithmetic mean *)
V3Aggregate(self) ==
    IF SumWeights(self) = 0 THEN Value(Half)
    ELSE Value(TDiv(self.dimensions[1] * self.weights[1]
                      + self.dimensions[2] * self.weights[2]
                      + self.dimensions[3] * self.weights[3],
                    SumWeights(self)))

Aggregate(self) ==
    IF self.kind = "T3" THEN T3Aggregate(self) ELSE V3Aggregate(self)

MergeSub(existing, other_sub) ==
    LET total == existing.observation_count + other_sub.observation_count IN
    IF total > 0
    THEN [existing EXCEPT
            !.score = TDiv(existing.observation_count * existing.score
                             + other_sub.observation_count * other_sub.score,
                           total),
            !.observation_count = total,
            !.weight = Min(WeightOf(total), Scale)]
    ELSE existing

TensorMerge(self, other) ==
    LET total_count(i) == self.observation_counts[i] + other.observation_counts[i]
    IN [kind |-> self.kind,
        dimensions |-> [i \in Dims |->
            IF total_count(i) = 0 THEN Half
            ELSE TDiv(self.observation_counts[i] * self.dimensions[i]
                        + other.observation_counts[i] * other.dimensions[i],
                      total_count(i))],
        observation_counts |-> [i \in Dims |-> total_count(i)],
        weights |-> [i \in Dims |->
            IF total_count(i) = 0 THEN 0
            ELSE Min(WeightOf(total_count(i)), Scale)],
        sub_dimensions |->
            [n \in DOMAIN self.sub_dimensions \cup DOMAIN other.sub_dimensions |->
                IF n \notin DOMAIN other.sub_dimensions
                THEN self.sub_dimensions[n]
                ELSE IF n \notin DOMAIN self.sub_dimensions
                     THEN other.sub_dimensions[n]
                     ELSE MergeSub(self.sub_dimensions[n],
                                   other.sub_dimensions[n])]]

(* a decay that pulls the score toward 0 *)
DecayScoreTowardZero(score, decay_factor) ==
    TDiv(score * decay_factor, Scale)

(* 0.5 + (score - 0.5) * decay_factor *)
DecayScore(score, decay_factor) ==
    Half + TDiv((score - Half) * decay_factor, Scale)

TensorDecay(self, decay_factor) ==
    [self EXCEPT
        !.dimensions = [i \in Dims |-> DecayScore(self.dimensions[i], decay_factor)],
        !.weights = [i \in Dims |-> TDiv(self.weights[i] * decay_factor, Scale)],
        !.sub_dimensions = [n \in DOMAIN @ |->
            [@[n] EXCEPT !.score = DecayScore(@, decay_factor),
                         !.weight = TDiv(@ * decay_factor, Scale)]]]

----------------------------------------------------------------------------
(* A caller of one tensor *)

(* scores a caller passes: 0.0, 0.5, 1.0, and two values outside [0, 1] *)
ObservedScores == {0, Half, Scale, 0 - Half, Scale + Half}

InitialScores ==
    {<<Half, Half, Half>>, <<Scale, 0, Half>>, <<Scale + Half, Half, Half>>}

SubDimensionNames == {"a"}

(* decay factors: 0.0, 0.5 and 2.0; decay takes any f64 *)
DecayFactors == {0, Half, 2 * Scale}

(* tensors a caller merges with: a new one, and one with an observation *)
OtherTensors(kind) ==
    {TensorNew(kind), TensorObserve(TensorNew(kind), 1, Scale).tensor}

tensorFrame == <<lctVars, storeVars, concVars, fileVars, cohVars, dirVars,
                 pairVars>>

CallTensorNew ==
    /\ tops < MaxTensorOps
    /\ \E kind \in TensorKinds :
          /\ tens' = TensorNew(kind)
          /\ tres' = [op |-> "new", err |-> FALSE]
    /\ tacc' = <<0, 0, 0>>
    /\ tops' = tops + 1
    /\ UNCHANGED tensorFrame

CallWithScores ==
    /\ tops < MaxTensorOps
    /\ \E kind \in TensorKinds, scores \in InitialScores :
          LET r == TensorWithScores(kind, scores) IN
          /\ tens' = IF r.err THEN tens ELSE r.tensor
          /\ tacc' = IF r.err THEN tacc ELSE <<0, 0, 0>>
          /\ tres' = [op |-> "with_scores", err |-> r.err]
    /\ tops' = tops + 1
    /\ UNCHANGED tensorFrame

CallObserve ==
    /\ tops < MaxTensorOps
    /\ \E d \in Dims, x \in ObservedScores :
          LET r == TensorObserve(tens, d, x) IN
          /\ tens' = r.tensor
          /\ tacc' = IF r.err THEN tacc ELSE [tacc EXCEPT ![d] = @ + 1]
          /\ tres' = [op |-> "observe", err |-> r.err, score |-> x]
    /\ tops' = tops + 1
    /\ UNCHANGED tensorFrame

CallObserveSubDimension ==
    /\ tops < MaxTensorOps
    /\ \E n \in SubDimensionNames, d \in {1}, x \in ObservedScores :
          LET r == TensorObserveSubDimension(tens, n, d, x) IN
          /\ tens' = r.tensor
          /\ tres' = [op |-> "observe_sub_dimension", err |-> r.err, score |-> x]
    /\ tops' = tops + 1
    /\ UNCHANGED <<tacc, tensorFrame>>

CallAggregate ==
    /\ tres' = [op |-> "aggregate", err |-> FALSE, val |-> Aggregate(tens)]
    /\ UNCHANGED <<tens, tacc, tops, tensorFrame>>

CallMerge ==
    /\ tops < MaxTensorOps
    /\ \E other \in OtherTensors(tens.kind) :
          /\ tens' = TensorMerge(tens, other)
          /\ tres' = [op |-> "merge", err |-> FALSE]
    /\ tops' = tops + 1
    /\ UNCHANGED <<tacc, tensorFrame>>

CallDecay ==
    /\ tops < MaxTensorOps
    /\ \E f \in DecayFactors :
          /\ tens' = TensorDecay(tens, f)
          /\ tres' = [op |-> "decay", err |-> FALSE, factor |-> f,
                      before |-> tens]
    /\ tops' = tops + 1
    /\ UNCHANGED <<tacc, tensorFrame>>

ObserveNext ==
    \/ CallTensorNew
    \/ CallWithScores
    \/ CallObserve
    \/ CallObserveSubDimension

TensorNext ==
    \/ CallTensorNew
    \/ CallWithScores
    \/ CallObserve
    \/ CallObserveSubDimension
    \/ CallAggregate
    \/ CallMerge
    \/ CallDecay

----------------------------------------------------------------------------
(* web4-core/src/coherence.rs: the coherence check of an identity *)

(* a binding of level 0-3 (none / weak), with a low trust ceiling *)
HardwareBindingWeak == [level |-> 2, trust_ceiling |-> (2 * Scale) \div 10]

(* Coherence::with_values: Result<Self> *)
CoherenceWithValues(continuity, stability, phi, reachability) ==
    IF \E v \in {continuity, stability, phi, reachability} : ~InUnitRange(v)
    THEN [err |-> TRUE]
    ELSE [err |-> FALSE,
          coherence |-> [continuity |-> continuity, stability |-> stability,
                         phi |-> phi, reachability |-> reachability]]

(* Coherence::total: C x S x Phi x R *)
CoherenceTotal(self) ==
    TDiv(TDiv(TDiv(self.continuity * self.stability, Scale) * self.phi, Scale)
           * self.reachability, Scale)

CoherenceThresholdForEntity(entity_type) ==
    CASE entity_type = "Human" -> 5000
      [] entity_type = "AiEmbodied" -> 6000
      [] entity_type = "AiSoftware" -> 7000
      [] entity_type = "Organization" -> 5000
      [] entity_type = "Role" -> 5000
      [] entity_type = "Task" -> 3000
      [] entity_type = "Resource" -> 3000
      [] entity_type = "Hybrid" -> 6000

(* check_coherence with the hardware-binding ceiling left out *)
CheckCoherenceTypeOnly(lct, coherence) ==
    LET threshold == CoherenceThresholdForEntity(lct.entity_type) IN
    IF CoherenceTotal(coherence) < threshold
    THEN [ok |-> FALSE, error |-> "CoherenceBelowThreshold",
          score |-> CoherenceTotal(coherence), threshold |-> threshold]
    ELSE [ok |-> TRUE]

CheckCoherence(lct, coherence) ==
    LET threshold == CoherenceThresholdForEntity(lct.entity_type)
        effective_threshold == Max(threshold, Scale - TrustCeiling(lct))
    IN IF CoherenceTotal(coherence) < effective_threshold
       THEN [ok |-> FALSE, error |-> "CoherenceBelowThreshold",
             score |-> CoherenceTotal(coherence),
             threshold |-> effective_threshold]
       ELSE [ok |-> TRUE]

(* factor values a caller passes: 0.0, 0.5, 0.8, 1.0 *)
Factors == {0, Half, (8 * Scale) \div 10, Scale}

HardwareBindings ==
    {HardwareBindingDefault, HardwareBindingTpm, HardwareBindingWeak}

(* an identity is built, a coherence score is built, and the check is made;
   the check reads nothing else, so one call per behaviour covers them all *)
CallCheckCoherence ==
    /\ cres.op = "none"
    /\ \E et \in EntityTypes, h \in HardwareBindings,
          c \in Factors, st \in Factors, p \in Factors, r \in Factors :
          LET lct == LctBuilderBuild(et, None, None, Some(h))
              coherence == CoherenceWithValues(c, st, p, r).coherence
          IN cres' = [op |-> "check_coherence",
                      entity_type |-> lct.entity_type,
                      trust_ceiling |-> TrustCeiling(lct),
                      coherence |-> coherence,
                      result |-> CheckCoherence(lct, coherence)]
    /\ UNCHANGED <<lctVars, storeVars, concVars, fileVars, tensorVars, dirVars,
                   pairVars>>

CoherenceNext == CallCheckCoherence

----------------------------------------------------------------------------
(* Listing the store by entity type: storage/memory.rs list, entity/types.rs *)

(* an id whose prefix is none of the five known ones *)
IdFooY == <<"f", "o", "o", ":", "y">>

(* an id whose prefix is the literal type_prefix of EntityType::Other *)
IdOtherZ == <<"o", "t", "h", "e", "r", ":", "z">>

ListedIds == {IdMcpA, IdRoleX, IdFooY, IdOtherZ}

(* EntityType::from_entity_id: the variant and its payload, or the error *)
FromEntityId(entity_id) ==
    LET idx == FindColon(entity_id)
        type_str == SubSeq(entity_id, 1, idx - 1)
        name == SubSeq(entity_id, idx + 1, Len(entity_id))
    IN IF idx = 0 THEN [err |-> TRUE]
       ELSE IF \E k \in EntityTypeKinds \ {"Other"} : TypePrefix(k) = type_str
       THEN [err |-> FALSE,
             kind |-> CHOOSE k \in EntityTypeKinds \ {"Other"} :
                         TypePrefix(k) = type_str,
             name |-> name]
       ELSE [err |-> FALSE, kind |-> "Other",
             name |-> type_str \o <<":">> \o name]

(* the Vecs an iteration over the keys in S can collect: each key once, in
   the HashMap's unspecified order *)
KeyOrders(S) ==
    {v \in [1..Cardinality(S) -> S] :
        \A i, j \in 1..Cardinality(S) : v[i] = v[j] => i = j}

(* the Vec<String> values list can return *)
StoreList(map, entity_type) == KeyOrders(StoreListIds(map, entity_type))

(* count: the length of the listed Vec *)
StoreCount(map, entity_type) == Cardinality(StoreListIds(map, entity_type))

OptEntityTypes == {None} \cup {Some(k) : k \in EntityTypeKinds}

GetListed ==
    \E id \in ListedIds :
        LET r == StoreGet(entities, id, now) IN
        /\ entities' = r.map
        /\ held' = Some(EntityTrustClone(r.ret))
        /\ sres' = [op |-> "get", id |-> id]
        /\ UNCHANGED <<streak, nmut, now, lctVars, restVars, concVars>>

DeleteListed ==
    \E id \in ListedIds :
        LET r == StoreDelete(entities, id) IN
        /\ entities' = r.map
        /\ sres' = [op |-> "delete", id |-> id]
        /\ UNCHANGED <<held, streak, nmut, now, lctVars, restVars, concVars>>

List ==
    \E entity_type \in OptEntityTypes :
        \E ids \in StoreList(entities, entity_type) :
            /\ sres' = [op |-> "list", entity_type |-> entity_type,
                        ret |-> ids]
            /\ UNCHANGED <<entities, held, streak, nmut, now, lctVars,
                           restVars, concVars>>

Count ==
    \E entity_type \in OptEntityTypes :
        /\ sres' = [op |-> "count", entity_type |-> entity_type,
                    ret |-> StoreCount(entities, entity_type)]
        /\ UNCHANGED <<entities, held, streak, nmut, now, lctVars,
                       restVars, concVars>>

ListNext ==
    \/ GetListed
    \/ DeleteListed
    \/ List
    \/ Count


----------------------------------------------------------------------------
(* The JSON form of a record: entity/trust.rs, the derived Serialize and
   Deserialize of EntityTrust with the t3_fields and v3_fields modules.  A
   document is a function from the member names it carries to their values. *)

T3New(talent, training, temperament) ==
    [talent |-> Clamp01(talent), training |-> Clamp01(training),
     temperament |-> Clamp01(temperament)]

V3New(valuation, veracity, validity) ==
    [valuation |-> Clamp01(valuation), veracity |-> Clamp01(veracity),
     validity |-> Clamp01(validity)]

T3FromLegacy6d(competence, reliability, consistency, witnesses, lineage, alignment) ==
    T3New(competence,
          TDiv(reliability + consistency + lineage, 3),
          TDiv(witnesses + alignment, 2))

V3FromLegacy6d(energy, contribution, stewardship, network, reputation, temporal) ==
    V3New(TDiv(energy + contribution, 2),
          reputation,
          TDiv(stewardship + network + temporal, 3))

T3CanonicalNames == {"talent", "training", "temperament"}

T3LegacyNames == {"competence", "reliability", "consistency", "witnesses",
                  "lineage", "alignment"}

V3CanonicalNames == {"valuation", "veracity", "validity"}

V3LegacyNames == {"energy", "contribution", "stewardship", "network",
                  "reputation", "temporal"}

(* a member of the document, or the serde default when it is absent *)
Member(doc, name, default) ==
    IF name \in DOMAIN doc THEN doc[name] ELSE default

(* a reader that knows the canonical names only *)
V3FieldsDeserializeCanonicalOnly(doc) ==
    IF V3CanonicalNames \subseteq DOMAIN doc
    THEN V3New(doc["valuation"], doc["veracity"], doc["validity"])
    ELSE V3Neutral

T3FieldsSerialize(t3) ==
    [talent |-> t3.talent, training |-> t3.training,
     temperament |-> t3.temperament]

T3FieldsDeserialize(doc) ==
    IF T3CanonicalNames \subseteq DOMAIN doc
    THEN T3New(doc["talent"], doc["training"], doc["temperament"])
    ELSE IF T3LegacyNames \subseteq DOMAIN doc
    THEN T3FromLegacy6d(doc["competence"], doc["reliability"],
                        doc["consistency"], doc["witnesses"],
                        doc["lineage"], doc["alignment"])
    ELSE T3Neutral

V3FieldsSerialize(v3) ==
    [valuation |-> v3.valuation, veracity |-> v3.veracity,
     validity |-> v3.validity]

V3FieldsDeserialize(doc) ==
    IF V3CanonicalNames \subseteq DOMAIN doc
    THEN V3New(doc["valuation"], doc["veracity"], doc["validity"])
    ELSE IF V3LegacyNames \subseteq DOMAIN doc
    THEN V3FromLegacy6d(doc["energy"], doc["contribution"],
                        doc["stewardship"], doc["network"],
                        doc["reputation"], doc["temporal"])
    ELSE V3Neutral

(* the members of the flattened tensors beside the struct's own *)
Flatten(own, t3doc, v3doc) ==
    [name \in DOMAIN own \cup DOMAIN t3doc \cup DOMAIN v3doc |->
        IF name \in DOMAIN own THEN own[name]
        ELSE IF name \in DOMAIN t3doc THEN t3doc[name]
        ELSE v3doc[name]]

EntityTrustSerialize(trust) ==
    Flatten([entity_id |-> trust.entity_id,
             entity_type |-> trust.entity_type,
             entity_name |-> trust.entity_name,
             witnessed_by |-> trust.witnessed_by,
             has_witnessed |-> trust.has_witnessed,
             action_count |-> trust.action_count,
             success_count |-> trust.success_count,
             witness_count |-> trust.witness_count,
             last_action |-> trust.last_action,
             created_at |-> trust.created_at],
            T3FieldsSerialize(trust.t3),
            V3FieldsSerialize(trust.v3))

(* entity_id is the one member without a default *)
DeserializeFails(doc) == "entity_id" \notin DOMAIN doc

EntityTrustDeserialize(doc, utc_now) ==
    [entity_id |-> doc["entity_id"],
     entity_type |-> Member(doc, "entity_type", <<>>),
     entity_name |-> Member(doc, "entity_name", <<>>),
     t3 |-> T3FieldsDeserialize(doc),
     v3 |-> V3FieldsDeserialize(doc),
     witnessed_by |-> Member(doc, "witnessed_by", <<>>),
     has_witnessed |-> Member(doc, "has_witnessed", <<>>),
     action_count |-> Member(doc, "action_count", 0),
     success_count |-> Member(doc, "success_count", 0),
     witness_count |-> Member(doc, "witness_count", 0),
     last_action |-> Member(doc, "last_action", None),
     created_at |-> Member(doc, "created_at", utc_now)]

----------------------------------------------------------------------------
(* storage/file.rs: one JSON file per entity.  Every operation takes the
   directory, a function from file paths to contents, and yields the
   directory it leaves and the value it returns. *)

(* the name entity_file gives the file: the first 16 hex digits of the
   SHA-256 of the id, not computed here *)
EntityFile(entity_id) == [sha256_16 |-> entity_id]

Ok(x) == [err |-> FALSE, val |-> x]

SerializationError == [err |-> TRUE]

FileSave(dir, trust) ==
    [dir |-> [p \in DOMAIN dir \cup {EntityFile(trust.entity_id)} |->
                 IF p = EntityFile(trust.entity_id) THEN EntityTrustSerialize(trust)
                 ELSE dir[p]],
     ret |-> Ok("unit")]

FileGet(dir, entity_id, utc_now) ==
    LET file_path == EntityFile(entity_id) IN
    IF file_path \in DOMAIN dir
    THEN [dir |-> dir,
          ret |-> IF DeserializeFails(dir[file_path])
                  THEN SerializationError
                  ELSE Ok(EntityTrustDeserialize(dir[file_path], utc_now))]
    ELSE LET trust == EntityTrustNew(entity_id, utc_now)
         IN [dir |-> FileSave(dir, trust).dir, ret |-> Ok(trust)]

FileGetExisting(dir, entity_id, utc_now) ==
    LET file_path == EntityFile(entity_id) IN
    IF file_path \in DOMAIN dir
    THEN [dir |-> dir,
          ret |-> IF DeserializeFails(dir[file_path])
                  THEN SerializationError
                  ELSE Ok(Some(EntityTrustDeserialize(dir[file_path], utc_now)))]
    ELSE [dir |-> dir, ret |-> Ok(None)]

FileDelete(dir, entity_id) ==
    [dir |-> [p \in DOMAIN dir \ {EntityFile(entity_id)} |-> dir[p]],
     ret |-> Ok(EntityFile(entity_id) \in DOMAIN dir)]

FileExists(dir, entity_id) ==
    [dir |-> dir, ret |-> Ok(EntityFile(entity_id) \in DOMAIN dir)]

FileListPathsUnfiltered(dir, entity_type, utc_now) ==
    {p \in DOMAIN dir : ~DeserializeFails(dir[p])}

(* the files list pushes an id for: those that parse and whose entity_type
   member is the type prefix *)
FileListPaths(dir, entity_type, utc_now) ==
    {p \in DOMAIN dir :
        /\ ~DeserializeFails(dir[p])
        /\ IsSome(entity_type) =>
              EntityTrustDeserialize(dir[p], utc_now).entity_type
                 = TypePrefix(Unwrap(entity_type))}

FileListIds(dir, entity_type, utc_now) ==
    {EntityTrustDeserialize(dir[p], utc_now).entity_id :
        p \in FileListPaths(dir, entity_type, utc_now)}

FileCount(dir, entity_type, utc_now) ==
    Cardinality(FileListPaths(dir, entity_type, utc_now))

(* TrustStore::update and witness, the provided methods, over FileStore *)
FileUpdate(dir, entity_id, success, magnitude, utc_now) ==
    LET got == FileGet(dir, entity_id, utc_now) IN
    IF got.ret.err THEN [dir |-> got.dir, ret |-> got.ret]
    ELSE LET trust == UpdateFromOutcome(got.ret.val, success, magnitude,
                                        utc_now)
         IN [dir |-> FileSave(got.dir, trust).dir, ret |-> Ok(trust)]

FileWitness(dir, witness_id, target_id, success, magnitude, utc_now) ==
    LET got1 == FileGet(dir, target_id, utc_now) IN
    IF got1.ret.err THEN [dir |-> got1.dir, ret |-> got1.ret]
    ELSE
    LET target == ReceiveWitness(got1.ret.val, witness_id, success, magnitude)
        dir1 == FileSave(got1.dir, target).dir
        got2 == FileGet(dir1, witness_id, utc_now)
    IN IF got2.ret.err THEN [dir |-> got2.dir, ret |-> got2.ret]
       ELSE
       LET witness == GiveWitness(got2.ret.val, target_id, success, magnitude)
       IN [dir |-> FileSave(got2.dir, witness).dir,
           ret |-> Ok([witness |-> witness, target |-> target])]

----------------------------------------------------------------------------
(* One caller driving an InMemoryStore and a FileStore with the same calls,
   both created empty.  sres holds what each backend returned. *)

BackendIds == {IdMcpA, IdNoColon}

backendFrame == <<streak, now, lctVars, concVars, fileVars, tensorVars,
                  cohVars, pairVars>>

(* the record the caller keeps from a call that returned one *)
Keep(ret) == IF ret.err THEN held ELSE Some(EntityTrustClone(ret.val))

BothGet ==
    \E id \in BackendIds :
        LET m == StoreGet(entities, id, now)
            f == FileGet(files, id, now) IN
        /\ entities' = m.map
        /\ files' = f.dir
        /\ held' = Keep(f.ret)
        /\ sres' = [op |-> "get", mem |-> Ok(m.ret), file |-> f.ret,
                    read |-> IF EntityFile(id) \in DOMAIN files
                             THEN Some(files[EntityFile(id)]) ELSE None,
                    wrote |-> IF EntityFile(id) \in DOMAIN files
                              THEN {} ELSE {f.ret.val}]
        /\ UNCHANGED <<nmut, backendFrame>>

BothGetExisting ==
    \E id \in BackendIds :
        LET m == StoreGetExisting(entities, id, now)
            f == FileGetExisting(files, id, now) IN
        /\ held' = IF ~f.ret.err /\ IsSome(f.ret.val)
                   THEN Some(EntityTrustClone(Unwrap(f.ret.val))) ELSE held
        /\ sres' = [op |-> "get_existing", mem |-> Ok(m.ret), file |-> f.ret,
                    wrote |-> {}]
        /\ UNCHANGED <<entities, files, nmut, backendFrame>>

BothSave ==
    /\ IsSome(held)
    /\ LET trust == Unwrap(held).rec
           m == StoreSave(entities, trust)
           f == FileSave(files, trust) IN
        /\ entities' = m.map
        /\ files' = f.dir
        /\ sres' = [op |-> "save", mem |-> Ok("unit"), file |-> f.ret,
                    wrote |-> {trust}]
    /\ UNCHANGED <<held, nmut, backendFrame>>

BothDelete ==
    \E id \in BackendIds :
        LET m == StoreDelete(entities, id)
            f == FileDelete(files, id) IN
        /\ entities' = m.map
        /\ files' = f.dir
        /\ sres' = [op |-> "delete", mem |-> Ok(m.ret), file |-> f.ret,
                    wrote |-> {}]
        /\ UNCHANGED <<held, nmut, backendFrame>>

BothExists ==
    \E id \in BackendIds :
        /\ sres' = [op |-> "exists",
                    mem |-> Ok(StoreExists(entities, id).ret),
                    file |-> FileExists(files, id).ret,
                    wrote |-> {}]
        /\ UNCHANGED <<entities, files, held, nmut, backendFrame>>

(* the filters test_list passes *)
ListedTypes == {None, Some("Mcp"), Some("Role")}

(* a listed Vec up to the order of its ids: the ids and the length *)
BothList ==
    \E entity_type \in ListedTypes :
        /\ sres' = [op |-> "list", entity_type |-> entity_type,
                    mem |-> Ok([ids |-> StoreListIds(entities, entity_type),
                                len |-> StoreCount(entities, entity_type)]),
                    file |-> Ok([ids |-> FileListIds(files, entity_type, now),
                                 len |-> FileCount(files, entity_type, now)]),
                    wrote |-> {}]
        /\ UNCHANGED <<entities, files, held, nmut, backendFrame>>

BothCount ==
    \E entity_type \in ListedTypes :
        /\ sres' = [op |-> "count",
                    mem |-> Ok(StoreCount(entities, entity_type)),
                    file |-> Ok(FileCount(files, entity_type, now)),
                    wrote |-> {}]
        /\ UNCHANGED <<entities, files, held, nmut, backendFrame>>

BothUpdate ==
    /\ nmut < MaxMut
    /\ \E id \in BackendIds, success \in {FALSE}, magnitude \in Magnitudes :
        LET m == StoreUpdate(entities, id, success, magnitude, now)
            f == FileUpdate(files, id, success, magnitude, now) IN
        /\ entities' = m.map
        /\ files' = f.dir
        /\ held' = Keep(f.ret)
        /\ sres' = [op |-> "update", mem |-> Ok(m.ret), file |-> f.ret,
                    wrote |-> IF f.ret.err THEN {} ELSE {f.ret.val}]
    /\ nmut' = nmut + 1
    /\ UNCHANGED backendFrame

BothWitness ==
    /\ nmut < MaxMut
    /\ \E w \in BackendIds, t \in BackendIds, magnitude \in Magnitudes :
        LET m == StoreWitness(entities, w, t, TRUE, magnitude, now)
            f == FileWitness(files, w, t, TRUE, magnitude, now) IN
        /\ entities' = m.map
        /\ files' = f.dir
        /\ held' = IF f.ret.err THEN held
                   ELSE Some(EntityTrustClone(f.ret.val.target))
        /\ sres' = [op |-> "witness", mem |-> Ok(m.ret), file |-> f.ret,
                    wrote |-> IF f.ret.err THEN {}
                              ELSE {f.ret.val.witness, f.ret.val.target}]
    /\ nmut' = nmut + 1
    /\ UNCHANGED backendFrame

(* the caller changes the record it keeps before saving it *)
HeldApplyDecay ==
    /\ IsSome(held) /\ nmut < MaxMut
    /\ \E days \in DecayDays \ {0}, rate \in DecayRates :
        held' = Some([Unwrap(held) EXCEPT
                         !.rec = ApplyDecay(@, days, rate)])
    /\ sres' = [op |-> "local", wrote |-> {}]
    /\ nmut' = nmut + 1
    /\ UNCHANGED <<entities, files, backendFrame>>

BackendsNext ==
    \/ BothGet
    \/ BothGetExisting
    \/ BothSave
    \/ BothDelete
    \/ BothExists
    \/ BothList
    \/ BothCount
    \/ BothUpdate
    \/ BothWitness
    \/ HeldApplyDecay

----------------------------------------------------------------------------
(* A directory that also holds files in the earlier six-dimension format *)

MaxLegacyFiles == 1

(* the six T3 and the six V3 values of a legacy file, in the order of the
   parameters of from_legacy_6d; the first of each is the file of
   test_legacy_deserialization *)
LegacyT3s == {<<8000, 7000, 6000, 5000, 9000, 4000>>,
              <<0, 10000, 2000, 10000, 5000, 0>>}

LegacyV3s == {<<8000, 6000, 5000, 7000, 9000, 3000>>,
              <<10000, 0, 0, 1000, 0, 10000>>}

LegacyDoc(entity_id, t, v) ==
    Flatten([entity_id |-> entity_id, action_count |-> 50,
             success_count |-> 45, witness_count |-> 10,
             witnessed_by |-> <<>>, has_witnessed |-> <<>>],
            [competence |-> t[1], reliability |-> t[2], consistency |-> t[3],
             witnesses |-> t[4], lineage |-> t[5], alignment |-> t[6]],
            [energy |-> v[1], contribution |-> v[2], stewardship |-> v[3],
             network |-> v[4], reputation |-> v[5], temporal |-> v[6]])

(* a legacy file that lacks two of the twelve names *)
Without(doc, names) == [name \in DOMAIN doc \ names |-> doc[name]]

LegacyDocs(entity_id) ==
    LET whole == {LegacyDoc(entity_id, t, v) : t \in LegacyT3s, v \in LegacyV3s}
    IN whole \cup {Without(doc, {"lineage", "temporal"}) : doc \in whole}

IsLegacyDoc(doc) ==
    DOMAIN doc \cap (T3LegacyNames \cup V3LegacyNames) # {}

PutLegacy ==
    /\ Cardinality({p \in DOMAIN files : IsLegacyDoc(files[p])}) < MaxLegacyFiles
    /\ \E doc \in LegacyDocs(IdMcpA) :
          files' = [p \in DOMAIN files \cup {EntityFile(IdMcpA)} |->
                       IF p = EntityFile(IdMcpA) THEN doc ELSE files[p]]
    /\ sres' = [op |-> "put_legacy", wrote |-> {}]
    /\ UNCHANGED <<entities, held, nmut, backendFrame>>

(* the file store's reads and writes of such a directory *)
LegacyNext ==
    \/ PutLegacy
    \/ BothGet
    \/ BothSave
    \/ BothUpdate
    \/ BothDelete

----------------------------------------------------------------------------
(* A caller holding a trust-core T3Tensor and V3Tensor and calling their
   public update operations: tensor/t3.rs, tensor/v3.rs *)

MaxPairOps == 3

RECURSIVE SqrtBetween(_, _, _)
(* the largest r in lo..hi with r * r <= x *)
SqrtBetween(x, lo, hi) ==
    IF lo >= hi THEN lo
    ELSE LET mid == (lo + hi + 1) \div 2
         IN IF mid * mid <= x THEN SqrtBetween(x, mid, hi)
            ELSE SqrtBetween(x, lo, mid - 1)

(* f64::sqrt of a fixed-point number *)
Sqrt(x) == SqrtBetween(x * Scale, 0, 46340)

T3UpdateTraining(self, success_count, action_count) ==
    IF action_count = 0 THEN self
    ELSE LET success_rate == TDiv(success_count * Scale, action_count)
             history_factor == Min(TDiv(action_count * Scale, 100), Scale)
         IN [self EXCEPT !.training =
                (2 * Scale) \div 10
                  + TDiv(TDiv(8 * Sqrt(success_rate), 10) * history_factor,
                         Scale)]

(* the values T3Tensor::new and V3Tensor::new are called with *)
StartValues == {0, (2 * Scale) \div 10, Half, Scale}

(* magnitudes and amounts: negative, 0.1 and 1.0 *)
PairMagnitudes == {0 - Scale, Scale \div 10, Scale}

(* success_count and action_count *)
CountPairs == {<<0, 0>>, <<0, 100>>, <<90, 100>>, <<400, 100>>}

PairDecayRates == {0, Scale \div 100, Scale}

pairFrame == <<lctVars, storeVars, concVars, fileVars, tensorVars, cohVars,
               dirVars>>

(* the call is recorded with the pair it was made on *)
PairCall(op, args, t3, v3) ==
    /\ pres.n < MaxPairOps
    /\ pair' = [t3 |-> t3, v3 |-> v3]
    /\ pres' = [op |-> op, n |-> pres.n + 1, before |-> pair, args |-> args]
    /\ UNCHANGED pairFrame

PairNew ==
    /\ pres.op = "none"
    /\ \E x \in StartValues :
          PairCall("new", <<x>>, T3New(x, x, x), V3New(x, x, x))

PairUpdateFromOutcome ==
    \E success \in BOOLEAN, magnitude \in PairMagnitudes :
        PairCall("update_from_outcome", <<success, magnitude>>,
                 T3UpdateFromOutcome(pair.t3, success, magnitude), pair.v3)

PairUpdateTraining ==
    \E counts \in CountPairs :
        PairCall("update_training", counts,
                 T3UpdateTraining(pair.t3, counts[1], counts[2]), pair.v3)

PairUpdateTemperamentFromWitness ==
    \E success \in BOOLEAN, magnitude \in PairMagnitudes :
        PairCall("update_temperament_from_witness", <<success, magnitude>>,
                 T3UpdateTemperamentFromWitness(pair.t3, success, magnitude),
                 pair.v3)

PairUpdateTemperamentFromAlignment ==
    \E success \in BOOLEAN, magnitude \in PairMagnitudes :
        PairCall("update_temperament_from_alignment", <<success, magnitude>>,
                 T3UpdateTemperamentFromAlignment(pair.t3, success, magnitude),
                 pair.v3)

PairAddValuation ==
    \E amount \in PairMagnitudes :
        PairCall("add_valuation", <<amount>>, pair.t3,
                 V3AddValuation(pair.v3, amount))

PairAddContribution ==
    \E amount \in PairMagnitudes :
        PairCall("add_contribution", <<amount>>, pair.t3,
                 V3AddContribution(pair.v3, amount))

PairGrowValidity ==
    \E amount \in PairMagnitudes :
        PairCall("grow_validity", <<amount>>, pair.t3,
                 V3GrowValidity(pair.v3, amount))

PairUpdateVeracity ==
    \E success \in BOOLEAN, magnitude \in PairMagnitudes :
        PairCall("update_veracity", <<success, magnitude>>, pair.t3,
                 V3UpdateVeracity(pair.v3, success, magnitude))

(* EntityTrust::apply_decay: both tensors decay *)
PairApplyDecay ==
    \E days \in DecayDays, rate \in PairDecayRates :
        PairCall("apply_decay", <<days, rate>>,
                 T3ApplyDecay(pair.t3, days, rate),
                 V3ApplyDecay(pair.v3, days, rate))

PairNext ==
    \/ PairNew
    \/ PairUpdateFromOutcome
    \/ PairUpdateTraining
    \/ PairUpdateTemperamentFromWitness
    \/ PairUpdateTemperamentFromAlignment
    \/ PairAddValuation
    \/ PairAddContribution
    \/ PairGrowValidity
    \/ PairUpdateVeracity
    \/ PairApplyDecay

----------------------------------------------------------------------------
(* Threads calling get, get_existing, save, delete, list and exists on one
   InMemoryStore: storage/memory.rs.  get runs through the steps above;
   each of the others takes the lock once, runs its critical section and
   drops the guard when it returns. *)

ReadOps == {"get_existing", "list", "exists"}

WriteOps == {"save", "delete"}

(* get_existing, list or exists is entered: self.entities.read() is next *)
CallRead(t) ==
    /\ th[t].pc = "idle" /\ CallsMade < MaxCalls
    /\ \E op \in ReadOps, id \in EntityIds :
          th' = [th EXCEPT ![t] =
                    [pc |-> "read_req", calls |-> th[t].calls + 1,
                     op |-> op, id |-> id, success |-> FALSE,
                     magnitude |-> 0, trust |-> None]]
    /\ UNCHANGED <<lock, done, storeVars, lctVars, restVars>>

(* save or delete is entered: self.entities.write() is next *)
CallWrite(t) ==
    /\ th[t].pc = "idle" /\ CallsMade < MaxCalls
    /\ \E op \in WriteOps, id \in EntityIds :
          th' = [th EXCEPT ![t] =
                    [pc |-> "write_req", calls |-> th[t].calls + 1,
                     op |-> op, id |-> id, success |-> FALSE,
                     magnitude |-> 0,
                     trust |-> Some(EntityTrustNew(id, now))]]
    /\ UNCHANGED <<lock, done, storeVars, lctVars, restVars>>

ReadAcquire(t) ==
    /\ th[t].pc = "read_req" /\ CanRead
    /\ lock' = [lock EXCEPT !.readers = @ \cup {t}]
    /\ th' = [th EXCEPT ![t].pc = "read_section"]
    /\ UNCHANGED <<done, storeVars, lctVars, restVars>>

(* the body of get_existing, list or exists; the guard is dropped on return *)
ReadSection(t) ==
    /\ th[t].pc = "read_section"
    /\ lock' = [lock EXCEPT !.readers = @ \ {t}]
    /\ th' = [th EXCEPT ![t] = IdleThread(th[t].calls)]
    /\ UNCHANGED <<done, storeVars, lctVars, restVars>>

WriteAcquire(t) ==
    /\ th[t].pc = "write_req" /\ CanWrite
    /\ lock' = [lock EXCEPT !.writer = t]
    /\ th' = [th EXCEPT ![t].pc = "write_section"]
    /\ UNCHANGED <<done, storeVars, lctVars, restVars>>

(* the body of save or delete; the guard is dropped on return *)
WriteSection(t) ==
    /\ th[t].pc = "write_section"
    /\ entities' = IF th[t].op = "save"
                   THEN StoreSave(entities, Unwrap(th[t].trust)).map
                   ELSE StoreDelete(entities, th[t].id).map
    /\ lock' = [lock EXCEPT !.writer = 0]
    /\ th' = [th EXCEPT ![t] = IdleThread(th[t].calls)]
    /\ UNCHANGED <<done, held, sres, streak, nmut, now, lctVars, restVars>>

(* what thread t does once it is inside a call *)
ThreadStep(t) ==
    \/ GetAcquireRead(t)
    \/ GetLookup(t)
    \/ SaveAcquireWrite(t)
    \/ GetSaveInsert(t)
    \/ ReadAcquire(t)
    \/ ReadSection(t)
    \/ WriteAcquire(t)
    \/ WriteSection(t)

LockNext ==
    \E t \in Threads :
        \/ CallGet(t)
        \/ CallRead(t)
        \/ CallWrite(t)
        \/ GetAcquireRead(t)
        \/ GetLookup(t)
        \/ SaveAcquireWrite(t)
        \/ GetSaveInsert(t)
        \/ ReadAcquire(t)
        \/ ReadSection(t)
        \/ WriteAcquire(t)
        \/ WriteSection(t)

----------------------------------------------------------------------------
(* Initial state: no identity, an empty store, idle threads *)

Init ==
    /\ lcts = <<>>
    /\ lres = NoLres
    /\ entities = EmptyMap
    /\ held = None
    /\ sres = [op |-> "none"]
    /\ streak = NoStreak
    /\ nmut = 0
    /\ now = 0
    /\ lock = [readers |-> {}, writer |-> 0]
    /\ th = [t \in Threads |-> IdleThread(0)]
    /\ done = EmptyMap
    /\ proc = IdleProc(0)
    /\ wres = [outcome |-> "none"]
    /\ tens = TensorNew("T3")
    /\ tres = [op |-> "new", err |-> FALSE]
    /\ tacc = <<0, 0, 0>>
    /\ tops = 0
    /\ cres = [op |-> "none"]
    /\ files = EmptyMap
    /\ pair = [t3 |-> T3Neutral, v3 |-> V3Neutral]
    /\ pres = [op |-> "none", n |-> 0]

SpecLct == Init /\ [][LctNext]_vars

SpecStore == Init /\ [][StoreNext]_vars

SpecFile == Init /\ [][FileNext]_vars

SpecIds == Init /\ [][IdsNext]_vars

SpecObserve == Init /\ [][ObserveNext]_vars

SpecTensor == Init /\ [][TensorNext]_vars

SpecCoherence == Init /\ [][CoherenceNext]_vars

SpecConc == Init /\ [][ConcNext]_vars

SpecList == Init /\ [][ListNext]_vars

SpecBackends == Init /\ [][BackendsNext]_vars

SpecLegacy == Init /\ [][LegacyNext]_vars

SpecPair == Init /\ [][PairNext]_vars

(* every thread inside a call is scheduled again, and a lock that stays free
   is granted to a thread waiting for it *)
SpecLock ==
    /\ Init
    /\ [][LockNext]_vars
    /\ \A t \in Threads : WF_vars(ThreadStep(t))

----------------------------------------------------------------------------
(* Claims about the identity primitive, checked under SpecLct *)

(* C1: once an identity's status is Void or Slashed, no identity operation
   (void, slash, create_child, verify_signature, trust_ceiling,
   coherence_threshold, fingerprint) returns its status to Active. *)
C1_NoReactivation ==
    [][\A i \in LctIdx :
          lcts[i].status \in {"Void", "Slashed"} => lcts'[i].status # "Active"]_vars

(* an operation that leaves the status alone has been called on a slashed
   identity, while another identity is void *)
C1_Witness ==
    /\ lres.op \in {"trust_ceiling", "coherence_threshold", "fingerprint"}
    /\ lcts[lres.idx].status = "Slashed"
    /\ \E j \in LctIdx : lcts[j].status = "Void"

(* C2: void() on an Active identity yields Void, slash() yields Slashed, and
   once an identity is Void or Slashed any further void() or slash() call,
   in any order, leaves its status unchanged. *)
C2_TerminalUnchanged ==
    [][\A i \in LctIdx :
          /\ (lres' = [op |-> "void", idx |-> i] /\ lcts[i].status = "Active"
                => lcts'[i].status = "Void")
          /\ (lres' = [op |-> "slash", idx |-> i] /\ lcts[i].status = "Active"
                => lcts'[i].status = "Slashed")
          /\ (lcts[i].status \in {"Void", "Slashed"}
                => lcts'[i].status = lcts[i].status)]_vars

(* C3: verify_signature returns the voided-identity error whenever the
   status is not Active, whatever the signature, and Ok only when the status
   is Active and the signature verifies under the public key; void() changes
   only the status, so a signature accepted before void() is rejected
   afterwards although it still verifies against the unchanged public key. *)
C3_VerifyGatedByStatus ==
    [][/\ (lres' # lres /\ lres'.op = "verify_signature") =>
            LET self == lcts[lres'.idx] IN
            /\ self.status # "Active" => lres'.val = "LctVoided"
            /\ lres'.val = "Ok" <=>
                  /\ self.status = "Active"
                  /\ PublicKeyVerify(self.public_key, lres'.msg, lres'.sig) = "Ok"
       /\ \A i \in LctIdx :
            (lres' = [op |-> "void", idx |-> i] /\ lcts[i].status = "Active") =>
               /\ lcts'[i] = [lcts[i] EXCEPT !.status = "Void"]
               /\ \A m \in Messages, s \in SignaturesFor(lcts[i]) :
                     VerifySignature(lcts[i], m, s) = "Ok" =>
                        /\ VerifySignature(lcts'[i], m, s) = "LctVoided"
                        /\ PublicKeyVerify(lcts'[i].public_key, m, s) = "Ok"]_vars

(* a voided identity was presented a signature made with its own key over
   the message, and answered LctVoided *)
C3_Witness ==
    /\ lres.op = "verify_signature"
    /\ lcts[lres.idx].status = "Void"
    /\ lres.sig = Sign(lcts[lres.idx].public_key, lres.msg)
    /\ lres.val = "LctVoided"

(* C4: an identity without a parent has lineage_depth 0, and an identity
   whose parent_id is P has lineage_depth = P.lineage_depth + 1, for every
   creation path (Lct::new, Lct::create_child, LctBuilder::build). *)
C4_LineageDepth ==
    \A i \in LctIdx :
        IF lcts[i].parent_id = None
        THEN lcts[i].lineage_depth = 0
        ELSE \A j \in LctIdx :
                lcts[j].id = Unwrap(lcts[i].parent_id) =>
                   lcts[i].lineage_depth = lcts[j].lineage_depth + 1

----------------------------------------------------------------------------
(* Claims about the trust store with a single caller, checked under
   SpecStore *)

IsNeutral(trust) ==
    /\ \A d \in {"talent", "training", "temperament"} : 2 * trust.t3[d] = Scale
    /\ \A d \in {"valuation", "veracity", "validity"} : 2 * trust.v3[d] = Scale
    /\ trust.witnessed_by = <<>> /\ trust.has_witnessed = <<>>
    /\ trust.action_count = 0 /\ trust.success_count = 0
    /\ trust.witness_count = 0

SameElsewhere(map1, map2, id) ==
    /\ DOMAIN map1 \ {id} = DOMAIN map2 \ {id}
    /\ \A x \in DOMAIN map1 \ {id} : map1[x] = map2[x]

(* C5: get(id) never reports not-found: for an absent id it returns a
   neutral record and persists it, so that exists(id) is true and
   get_existing(id) returns that record right afterwards; for a present id
   it returns the stored record and leaves the store unchanged. *)
C5_GetOrCreate ==
    [][sres'.op = "get" =>
          LET id == sres'.id
              ret == Unwrap(held').rec IN
          IF id \notin DOMAIN entities
          THEN /\ ret.entity_id = id /\ IsNeutral(ret)
               /\ StoreExists(entities', id).ret
               /\ StoreGetExisting(entities', id, now').ret = Some(ret)
               /\ SameElsewhere(entities, entities', id)
          ELSE ret = entities[id] /\ entities' = entities]_vars

(* get created a record while the store held another, updated, record *)
C5_Witness ==
    /\ sres.op = "get" /\ sres.created
    /\ sres.id \in DOMAIN entities
    /\ \E x \in DOMAIN entities : entities[x].action_count > 0

(* C6: get_existing(id) returns None for an absent id and the stored record
   for a present one, and the stored ids and records are the same after the
   call as before: it never creates the entity. *)
C6_GetExistingPure ==
    [][sres'.op = "get_existing" =>
          /\ entities' = entities
          /\ sres'.found = (sres'.id \in DOMAIN entities)
          /\ sres'.found => Unwrap(held').rec = entities[sres'.id]
          /\ ~sres'.found => held' = held]_vars

(* get_existing found nothing for an id, in a store holding another id *)
C6_Witness ==
    /\ sres.op = "get_existing" /\ ~sres.found
    /\ sres.id \notin DOMAIN entities
    /\ DOMAIN entities # {}

(* C7: save is a full overwrite keyed by entity id and save(get(id)) is a
   fixed point: right after save(r), get(r.entity_id) returns r and changes
   nothing, no other stored record has changed, and saving a record equal to
   the stored one leaves the whole store as it was. *)
C7_SaveOverwrites ==
    [][sres'.op = "save" =>
          LET r == Unwrap(held).rec
              got == StoreGet(entities', r.entity_id, now') IN
          /\ got.ret = r /\ got.map = entities'
          /\ SameElsewhere(entities, entities', r.entity_id)
          /\ (r.entity_id \in DOMAIN entities /\ entities[r.entity_id] = r)
                => entities' = entities]_vars

(* a record that has been updated was saved back unmodified *)
C7_Witness ==
    /\ sres.op = "save" /\ sres.same
    /\ entities[sres.id].action_count > 0

(* C8: applying update_from_outcome, receive_witness, give_witness or
   apply_decay to a record handed out by the store does not change what the
   store holds: nothing is flushed until save is called. *)
C8_NoImplicitFlush ==
    [][sres'.op = "local" => entities' = entities]_vars

(* receive_witness was applied to the copy of a stored, updated record: the
   store still holds the record without it *)
C8_Witness ==
    /\ sres.op = "local" /\ sres.fn = "receive_witness"
    /\ LET r == Unwrap(held).rec IN
         /\ r.entity_id \in DOMAIN entities
         /\ r.action_count > 0
         /\ entities[r.entity_id].action_count = r.action_count
         /\ entities[r.entity_id].witness_count + 1 = r.witness_count

(* C9: after n >= 1 store.witness(W, T, ..) calls in a row with the same W
   and T, the stored record of T has W in witnessed_by exactly once, the
   stored record of W has T in has_witnessed exactly once, and T's
   witness_count has grown by exactly n. *)
C9_WitnessIdempotentSets ==
    streak.n >= 1 =>
        /\ streak.w \in DOMAIN entities /\ streak.t \in DOMAIN entities
        /\ Occurrences(entities[streak.t].witnessed_by, streak.w) = 1
        /\ Occurrences(entities[streak.w].has_witnessed, streak.t) = 1
        /\ entities[streak.t].witness_count = streak.base + streak.n

(* two witness calls in a row by W on another entity T *)
C9_Witness == streak.n >= 2 /\ streak.w # streak.t

----------------------------------------------------------------------------
(* Claims about concurrent callers of the in-memory store, checked under
   SpecConc *)

AllReturned == \A t \in Threads : th[t].pc = "idle"

(* C10: after k update(id, ..) calls issued from concurrent threads have all
   returned, the stored action_count of id has grown by exactly k and its
   success_count by exactly the number of calls with success = true. *)
C10_NoLostUpdate ==
    AllReturned =>
        \A id \in DOMAIN done :
            /\ id \in DOMAIN entities
            /\ entities[id].action_count = done[id].calls
            /\ entities[id].success_count = done[id].successes

(* C11: the write-back of a get that missed only ever stores its neutral
   record over an absent or neutral one; it never replaces a non-neutral
   record another thread has saved in the meantime. *)
C11_BenignCreateRace ==
    [][\A t \in Threads :
          (th[t].pc = "get_save_insert" /\ th'[t].pc # "get_save_insert") =>
              \/ th[t].id \notin DOMAIN entities
              \/ IsNeutral(entities[th[t].id])]_vars

----------------------------------------------------------------------------
(* Claims about store.witness under crashes and I/O errors, checked under
   SpecFile *)

(* C12: witness persists the target's record before it reads or persists
   the witness's record, so in a store modified only by sequential witness
   calls, each possibly cut short by a crash at any step, whenever the
   stored W.has_witnessed contains T the stored T.witnessed_by contains W. *)
C12_TargetBeforeWitness ==
    \A w \in DOMAIN entities : \A t \in EntityIds :
        Contains(entities[w].has_witnessed, t) =>
            /\ t \in DOMAIN entities
            /\ Contains(entities[t].witnessed_by, w)

(* a crash has left the target's half written and the witness's half not *)
C12_Witness ==
    /\ wres.outcome = "crash"
    /\ wres.witness_id # wres.target_id
    /\ wres.target_id \in DOMAIN entities
    /\ Contains(entities[wres.target_id].witnessed_by, wres.witness_id)
    /\ \/ wres.witness_id \notin DOMAIN entities
       \/ ~Contains(entities[wres.witness_id].has_witnessed, wres.target_id)

(* the record of id is as it was when the call was entered; a record that
   did not exist may have been created neutral by get *)
UnchangedByCall(id) ==
    IF id \in DOMAIN wres.before
    THEN id \in DOMAIN entities /\ entities[id] = wres.before[id]
    ELSE id \in DOMAIN entities => entities[id] = EntityTrustNew(id, now)

(* C13: every witness(W, T, ..) call that returns to its caller, with
   success or with an error, leaves the store either with both records
   updated (T.witnessed_by has W and W.has_witnessed has T) or with neither
   record changed by the call; only a crash leaves a one-sided update. *)
C13_ReturnedCallNotOneSided ==
    wres.outcome \in {"ok", "err"} =>
        \/ /\ wres.target_id \in DOMAIN entities
           /\ wres.witness_id \in DOMAIN entities
           /\ Contains(entities[wres.target_id].witnessed_by, wres.witness_id)
           /\ Contains(entities[wres.witness_id].has_witnessed, wres.target_id)
           /\ ~UnchangedByCall(wres.target_id)
           /\ ~UnchangedByCall(wres.witness_id)
        \/ /\ UnchangedByCall(wres.target_id)
           /\ UnchangedByCall(wres.witness_id)
----------------------------------------------------------------------------
(* Claims about malformed entity ids, checked under SpecIds *)

(* C14: get, update and witness called with an id that lacks the type:name
   separator return an error and leave the store unchanged: no record is
   created or modified. *)
C14_MalformedIdRejected ==
    [][(/\ sres'.op \in {"get", "update", "witness"}
        /\ \E id \in sres'.ids : InvalidEntityId(id))
          => sres'.err /\ entities' = entities]_vars
----------------------------------------------------------------------------
(* Claims about the web4-core tensors.  C15 and C16 are checked under
   SpecObserve, C17 to C19 under SpecTensor. *)

(* C15: observe and observe_sub_dimension called with an observed_score
   outside [0,1] return an error and leave the tensor unchanged: scores,
   weights, observation counts and the set of sub-dimensions. *)
C15_RejectedObserveNoChange ==
    [][(/\ tops' # tops
        /\ tres'.op \in {"observe", "observe_sub_dimension"}
        /\ ~InUnitRange(tres'.score))
          => tres'.err /\ tens' = tens]_vars

(* an out-of-range observation has been rejected on a tensor that already
   holds an observation and a sub-dimension *)
C15_Witness ==
    /\ tres.op \in {"observe", "observe_sub_dimension"}
    /\ tres.err /\ tres.score > Scale
    /\ tens.observation_counts[1] > 0
    /\ tens.sub_dimensions # EmptyMap

RootsInRange(t) ==
    \A d \in Dims :
        /\ 0 <= t.dimensions[d] /\ t.dimensions[d] <= Scale
        /\ 0 <= t.weights[d] /\ t.weights[d] <= Scale

(* C16: from a new tensor or one built by with_scores, after any sequence of
   accepted or rejected observe calls, every score and weight is within
   [0,1], the observation count of a dimension equals the number of accepted
   observations on it, and the weight does not decrease when the count
   grows. *)
C16_ObserveInvariant ==
    [][/\ RootsInRange(tens) /\ RootsInRange(tens')
       /\ \A d \in Dims :
             /\ tens.observation_counts[d] = tacc[d]
             /\ tens'.observation_counts[d] = tacc'[d]
             /\ tens'.observation_counts[d] > tens.observation_counts[d]
                  => tens'.weights[d] >= tens.weights[d]]_vars

(* two observations accepted on a dimension of a with_scores tensor, then
   one rejected *)
C16_Witness ==
    /\ tres.op = "observe" /\ tres.err
    /\ tacc[1] = 2 /\ tens.observation_counts[1] = 2
    /\ tens.weights[1] = WeightOf(2)
    /\ tens.dimensions[2] = 0

(* C17: score and weight of every root dimension stay within [0,1] after
   any sequence of observe, decay and merge calls, for every decay factor
   that decay accepts. *)
C17_AlwaysInRange == RootsInRange(tens)

(* C18: aggregate returns exactly 0.5 whenever the total weight is 0: for a
   new tensor, for one built by with_scores with any scores, and for any
   tensor with zero observations. *)
C18_NeutralAggregate ==
    /\ SumWeights(tens) = 0 => Aggregate(tens) = Value(Half)
    /\ (tres.op = "aggregate" /\ SumWeights(tens) = 0)
          => tres.val = Value(Half)

(* aggregate has returned 0.5 for a T3 built by with_scores with scores
   other than 0.5 *)
C18_Witness ==
    /\ tres.op = "aggregate" /\ tres.val = Value(Half)
    /\ tens.kind = "T3"
    /\ tens.dimensions = <<Scale, 0, Half>>

AllScoresNeutral(t) ==
    /\ \A d \in Dims : t.dimensions[d] = Half
    /\ \A n \in DOMAIN t.sub_dimensions : t.sub_dimensions[n].score = Half

(* C19: decay(f) applied to a tensor whose every score equals 0.5 is a
   no-op: every score, weight and observation count is the same after the
   call as before. *)
C19_DecayNeutralNoOp ==
    [][(tops' # tops /\ tres'.op = "decay" /\ AllScoresNeutral(tens))
          => tens' = tens]_vars

(* C19, amended: decay(f) with a finite f applied to a tensor whose every
   score equals 0.5 leaves every score and observation count as it was and
   multiplies every weight by f; the weights stay the same only if they are
   0 or f is 1. *)
C19_DecayNeutralKeepsScores ==
    [][(tops' # tops /\ tres'.op = "decay" /\ AllScoresNeutral(tens))
          => /\ tens'.dimensions = tens.dimensions
             /\ tens'.observation_counts = tens.observation_counts
             /\ AllScoresNeutral(tens')
             /\ \A d \in Dims :
                   tens'.weights[d] = TDiv(tens.weights[d] * tres'.factor, Scale)]_vars

(* decay(0.5) has halved a positive weight of a tensor whose scores are all
   0.5 *)
C19_Witness ==
    /\ tres.op = "decay" /\ tres.factor = Half
    /\ AllScoresNeutral(tres.before)
    /\ tres.before.weights[1] > 0
    /\ tens.weights[1] < tres.before.weights[1]
    /\ tens.dimensions = tres.before.dimensions
----------------------------------------------------------------------------
(* Claims about the coherence check, checked under SpecCoherence *)

(* C20: check_coherence uses the effective threshold max(entity-type
   threshold, 1 - identity.trust_ceiling()) and returns
   CoherenceBelowThreshold{score = total, threshold = effective threshold}
   exactly when total = continuity x stability x phi x reachability is
   below it, and success otherwise; a total equal to the threshold passes. *)
C20_CheckCoherence ==
    cres.op = "check_coherence" =>
        LET c == cres.coherence
            total == TDiv(TDiv(TDiv(c.continuity * c.stability, Scale) * c.phi,
                               Scale) * c.reachability, Scale)
            by_type == CoherenceThresholdForEntity(cres.entity_type)
            by_ceiling == Scale - cres.trust_ceiling
            effective == IF by_type >= by_ceiling THEN by_type ELSE by_ceiling
        IN IF total < effective
           THEN cres.result = [ok |-> FALSE, error |-> "CoherenceBelowThreshold",
                               score |-> total, threshold |-> effective]
           ELSE cres.result = [ok |-> TRUE]

(* a total of 0.8 has passed a threshold of 0.8 that comes from the trust
   ceiling 0.2 of a weakly bound Human identity, whose type threshold is 0.5 *)
C20_Witness ==
    /\ cres.op = "check_coherence"
    /\ cres.entity_type = "Human"
    /\ cres.trust_ceiling = (2 * Scale) \div 10
    /\ CoherenceTotal(cres.coherence) = (8 * Scale) \div 10
    /\ cres.result.ok
----------------------------------------------------------------------------
(* Claims about listing, checked under SpecList *)

(* the ids of a listed Vec, and whether each occurs once *)
Listed(ret) == {ret[i] : i \in 1..Len(ret)}

NoRepeats(ret) == \A i, j \in 1..Len(ret) : ret[i] = ret[j] => i = j

(* the stored ids that from_entity_id parses to the variant kind *)
StoredOfKind(kind) ==
    {id \in DOMAIN entities :
        /\ ~FromEntityId(id).err
        /\ FromEntityId(id).kind = kind}

(* C21 as stated: list(None) returns every stored id exactly once, and
   list(Some(t)) returns exactly the stored ids that from_entity_id parses
   to the variant of t, for every variant including Other *)
C21_ListByParsedType ==
    sres.op = "list" =>
        /\ NoRepeats(sres.ret)
        /\ Listed(sres.ret) =
              IF IsSome(sres.entity_type)
              THEN StoredOfKind(Unwrap(sres.entity_type))
              ELSE DOMAIN entities

(* C21 amended: list(None) returns every stored id exactly once;
   list(Some(t)) returns, each once, exactly the stored ids that begin with
   t.type_prefix() followed by ':', which for the five known variants are
   the stored ids from_entity_id parses to that variant, and for Other are
   the stored ids beginning with "other:" *)
C21_ListByPrefix ==
    sres.op = "list" =>
        /\ NoRepeats(sres.ret)
        /\ ~IsSome(sres.entity_type) => Listed(sres.ret) = DOMAIN entities
        /\ IsSome(sres.entity_type) =>
              LET kind == Unwrap(sres.entity_type) IN
              /\ Listed(sres.ret) =
                    {id \in DOMAIN entities :
                        StartsWith(id, TypePrefix(kind) \o <<":">>)}
              /\ kind # "Other" => Listed(sres.ret) = StoredOfKind(kind)
              /\ kind = "Other" =>
                    Listed(sres.ret) = DOMAIN entities \cap {IdOtherZ}

(* list(Some(Other)) called on a store holding all four ids returns only the
   id that begins with "other:" *)
C21_Witness ==
    /\ sres.op = "list"
    /\ sres.entity_type = Some("Other")
    /\ DOMAIN entities = ListedIds
    /\ sres.ret = <<IdOtherZ>>

----------------------------------------------------------------------------
(* Claims about the persisted format, checked under SpecLegacy *)

(* a document carrying all twelve legacy names and no canonical one *)
OnlyLegacy(doc) ==
    /\ T3LegacyNames \cup V3LegacyNames \subseteq DOMAIN doc
    /\ DOMAIN doc \cap (T3CanonicalNames \cup V3CanonicalNames) = {}

CanonicalOnly(doc) ==
    /\ T3CanonicalNames \cup V3CanonicalNames \subseteq DOMAIN doc
    /\ DOMAIN doc \cap (T3LegacyNames \cup V3LegacyNames) = {}

(* the documented folding of six dimensions into three *)
FoldT3(doc) ==
    [talent |-> doc["competence"],
     training |-> TDiv(doc["reliability"] + doc["consistency"]
                          + doc["lineage"], 3),
     temperament |-> TDiv(doc["witnesses"] + doc["alignment"], 2)]

FoldV3(doc) ==
    [valuation |-> TDiv(doc["energy"] + doc["contribution"], 2),
     veracity |-> doc["reputation"],
     validity |-> TDiv(doc["stewardship"] + doc["network"]
                          + doc["temporal"], 3)]

(* the records the last call of the store wrote *)
Written ==
    IF sres.op \in {"get", "save", "update"} THEN sres.wrote ELSE {}

(* C22: a get that reads a file carrying only the legacy names returns the
   tensors of the folding formula; every record the store writes is written
   under the canonical names only, and the file it leaves reads back to the
   tensors written; so the directory holds legacy files only where they
   were put from outside, never as the result of a write *)
C22_Migration ==
    /\ (sres.op = "get" /\ IsSome(sres.read) /\ OnlyLegacy(Unwrap(sres.read)))
          => /\ ~sres.file.err
             /\ sres.file.val.t3 = FoldT3(Unwrap(sres.read))
             /\ sres.file.val.v3 = FoldV3(Unwrap(sres.read))
    /\ \A trust \in Written :
          LET file_path == EntityFile(trust.entity_id) IN
          /\ CanonicalOnly(EntityTrustSerialize(trust))
          /\ file_path \in DOMAIN files
          /\ files[file_path] = EntityTrustSerialize(trust)
          /\ EntityTrustDeserialize(files[file_path], now).t3 = trust.t3
          /\ EntityTrustDeserialize(files[file_path], now).v3 = trust.v3
    /\ \A p \in DOMAIN files :
          files[p] \in LegacyDocs(IdMcpA) \/ CanonicalOnly(files[p])

(* the legacy file of test_legacy_deserialization was read by get, and the
   record then updated and written back under the canonical names *)
C22_Witness ==
    /\ sres.op = "update"
    /\ ~sres.file.err
    /\ sres.file.val.entity_id = IdMcpA
    /\ sres.file.val.action_count = 51
    /\ CanonicalOnly(files[EntityFile(IdMcpA)])
    /\ files[EntityFile(IdMcpA)]["talent"]
          = T3UpdateFromOutcome([talent |-> 8000, training |-> 7333,
                                 temperament |-> 4500], FALSE,
                                Scale \div 10).talent

----------------------------------------------------------------------------
(* Claims about the two backends, checked under SpecBackends *)

(* a record without its timestamps *)
SansTime(trust) == [trust EXCEPT !.created_at = 0, !.last_action = None]

(* the two results of one call are equal up to timestamps *)
SameResult(op, mem, file) ==
    /\ ~mem.err /\ ~file.err
    /\ CASE op \in {"get", "update"} ->
               SansTime(mem.val) = SansTime(file.val)
         [] op = "get_existing" ->
               /\ IsSome(mem.val) = IsSome(file.val)
               /\ IsSome(mem.val) =>
                     SansTime(Unwrap(mem.val)) = SansTime(Unwrap(file.val))
         [] op = "witness" ->
               /\ SansTime(mem.val.witness) = SansTime(file.val.witness)
               /\ SansTime(mem.val.target) = SansTime(file.val.target)
         [] OTHER -> mem.val = file.val

(* C23: in every sequence of get, get_existing, save, delete, exists, list,
   count, update and witness calls made on an in-memory store and a file
   store that both start empty, each call returns the same result from both,
   timestamps and the order of listed ids aside *)
C23_BackendsAgree ==
    sres.op \in {"get", "get_existing", "save", "delete", "exists", "list",
                 "count", "update", "witness"}
        => SameResult(sres.op, sres.mem, sres.file)

(* both backends list the one mcp id of a store that also holds an id
   without a type, after the mcp record was witnessed *)
C23_Witness ==
    /\ sres.op = "list"
    /\ sres.entity_type = Some("Mcp")
    /\ sres.file.val = [ids |-> {IdMcpA}, len |-> 1]
    /\ DOMAIN entities = BackendIds
    /\ entities[IdMcpA].witness_count = 1

----------------------------------------------------------------------------
(* Claims about the aggregates, checked under SpecTensor *)

(* a root dimension with score 0 that carries weight *)
ZeroWeighted(t) == \E d \in Dims : t.dimensions[d] = 0 /\ t.weights[d] > 0

(* C25: T3.aggregate() is 0 whenever some dimension has score 0 and weight
   > 0, whatever the other scores and weights; V3.aggregate() with such a
   dimension is still positive when another weighted dimension has a
   positive score *)
C25_ConjunctiveCollapse ==
    (tres.op = "aggregate" /\ ZeroWeighted(tens) /\ RootsInRange(tens)) =>
        /\ tens.kind = "T3" => tres.val = Value(0)
        /\ (/\ tens.kind = "V3"
            /\ \E d \in Dims : tens.dimensions[d] * tens.weights[d] >= Scale)
              => tres.val.known /\ tres.val.val > 0

----------------------------------------------------------------------------
(* Claims about the trust-core tensors, checked under SpecPair *)

InUnit(x) == 0 <= x /\ x <= Scale

(* the last call was update_from_outcome(false, m) with m in (0,1], made on
   a training value in [0,1] *)
FailureUpdate ==
    /\ pres.op = "update_from_outcome"
    /\ ~pres.args[1]
    /\ 0 < pres.args[2] /\ pres.args[2] <= Scale
    /\ InUnit(pres.before.t3.training)

(* by how much the call lowered training, and by how much
   update_from_outcome(true, m) raises it from the same value *)
FailureDrop == pres.before.t3.training - pair.t3.training

SuccessRise ==
    T3UpdateFromOutcome(pres.before.t3, TRUE, pres.args[2]).training
       - pres.before.t3.training

(* C24 as stated: for every starting training value in [0,1] and every
   magnitude in (0,1], update_from_outcome(false, m) lowers training by more
   than update_from_outcome(true, m) raises it *)
C24_FailureAlwaysLarger == FailureUpdate => FailureDrop > SuccessRise

(* C24 amended: the failure drop m * 0.10 * t exceeds the success rise
   m * 0.05 * (1 - t) when the starting training t is above 1/3 (checked
   from 0.4 up, clear of the rounding of the fixed point), and is the
   smaller of the two when t is below 1/3 (checked up to 0.3) *)
C24_FailureLargerAboveThird ==
    FailureUpdate =>
        /\ 10 * pres.before.t3.training >= 4 * Scale
              => FailureDrop > SuccessRise
        /\ 10 * pres.before.t3.training <= 3 * Scale
              => FailureDrop < SuccessRise

(* update_from_outcome(false, 1.0) on training 0.2 lowers it by 0.02, where
   a success would have raised it by 0.04 *)
C24_Witness ==
    /\ FailureUpdate
    /\ pres.args[2] = Scale
    /\ pres.before.t3.training = (2 * Scale) \div 10
    /\ FailureDrop = (2 * Scale) \div 100
    /\ SuccessRise = (4 * Scale) \div 100

(* C26: after any sequence of the public update operations every field of
   the T3Tensor and of the V3Tensor is within [0,1] *)
C26_PairInRange ==
    /\ InUnit(pair.t3.talent)
    /\ InUnit(pair.t3.training)
    /\ InUnit(pair.t3.temperament)
    /\ InUnit(pair.v3.valuation)
    /\ InUnit(pair.v3.veracity)
    /\ InUnit(pair.v3.validity)

(* the last call was apply_decay with days_inactive >= 0 and decay_rate in
   [0,1], made on tensors whose dimensions were all in [0,1] *)
DecayCall ==
    /\ pres.op = "apply_decay"
    /\ pres.args[1] >= 0
    /\ InUnit(pres.args[2])
    /\ \A x \in {pres.before.t3.talent, pres.before.t3.training,
                 pres.before.t3.temperament, pres.before.v3.valuation,
                 pres.before.v3.veracity, pres.before.v3.validity} :
          InUnit(x)

(* the dimensions before and after the call, pairwise *)
DecayedDims ==
    {<<pres.before.t3.talent, pair.t3.talent>>,
     <<pres.before.t3.training, pair.t3.training>>,
     <<pres.before.t3.temperament, pair.t3.temperament>>,
     <<pres.before.v3.valuation, pair.v3.valuation>>,
     <<pres.before.v3.validity, pair.v3.validity>>}

(* C27 as stated: after apply_decay every dimension is less than or equal
   to its value before the call *)
C27_DecayNeverRaises ==
    DecayCall =>
        /\ \A d \in DecayedDims : d[2] <= d[1]
        /\ pair.v3.veracity <= pres.before.v3.veracity

(* C27 amended: apply_decay with days_inactive = 0 changes nothing; with
   days_inactive > 0 a dimension at or above the floor 0.3 ends between the
   floor and its old value, a dimension below the floor is raised to exactly
   0.3, and veracity is left as it was *)
C27_DecayTowardFloor ==
    DecayCall =>
        /\ pres.args[1] = 0 => pair = pres.before
        /\ pres.args[1] > 0 =>
              \A d \in DecayedDims :
                 IF 10 * d[1] >= 3 * Scale
                 THEN 3 * Scale <= 10 * d[2] /\ d[2] <= d[1]
                 ELSE 10 * d[2] = 3 * Scale
        /\ pair.v3.veracity = pres.before.v3.veracity

(* thirty days of decay at 1% a day on tensors built with 0.2 everywhere
   leave every decaying dimension at 0.3 *)
C27_Witness ==
    /\ DecayCall
    /\ pres.args = <<30, Scale \div 100>>
    /\ pres.before.t3.training = (2 * Scale) \div 10
    /\ pair.t3.training = (3 * Scale) \div 10
    /\ pair.v3.validity = (3 * Scale) \div 10

----------------------------------------------------------------------------
(* Claims about witness and the record counters, checked under SpecStore *)

(* C28: the pair (witness, target) that store.witness(W, T, ...) returns
   equals the records the store holds for W and for T when the call
   returns, for all W and T including W = T *)
C28_ReturnedPairIsStored ==
    sres.op = "witness" =>
        /\ sres.witness_id \in DOMAIN entities
        /\ sres.target_id \in DOMAIN entities
        /\ entities[sres.witness_id] = sres.witness
        /\ entities[sres.target_id] = sres.target

NoDuplicates(vec) == \A i, j \in 1..Len(vec) : vec[i] = vec[j] => i = j

RecordCountersOk(trust) ==
    /\ trust.success_count <= trust.action_count
    /\ Len(trust.witnessed_by) <= trust.witness_count
    /\ NoDuplicates(trust.witnessed_by)
    /\ NoDuplicates(trust.has_witnessed)

(* C29: every record the caller holds, reached from a new or fetched record
   by update_from_outcome, receive_witness, give_witness and apply_decay,
   and every record stored through update and witness calls, has
   success_count <= action_count, at most witness_count entries in
   witnessed_by, and no id twice in witnessed_by or in has_witnessed *)
C29_RecordCounters ==
    /\ \A id \in DOMAIN entities : RecordCountersOk(entities[id])
    /\ IsSome(held) => RecordCountersOk(Unwrap(held).rec)

(* a stored record witnessed twice by the same entity, while the caller
   holds a record that was witnessed *)
C29_Witness ==
    /\ \E id \in DOMAIN entities :
          /\ entities[id].witness_count = 2
          /\ Len(entities[id].witnessed_by) = 1
    /\ IsSome(held)
    /\ Unwrap(held).rec.witness_count >= 1

----------------------------------------------------------------------------
(* Claims about the lock of the in-memory store, checked under SpecLock *)

(* the thread is about to call self.entities.write() *)
RequestsWrite(t) == th[t].pc \in {"get_save_write", "save_write", "write_req"}

(* C30: no thread requests the write lock while it holds the read lock (on
   a miss get has dropped its read guard before save asks for the write
   guard), and every call of get, get_existing, save, delete, list or exists
   that a thread has entered returns *)
C30_NoSelfDeadlock ==
    /\ [](\A t \in Threads :
            RequestsWrite(t) => t \notin lock.readers /\ lock.writer # t)
    /\ \A t \in Threads : (th[t].pc # "idle") ~> (th[t].pc = "idle")

(* a get that missed waits for the write lock, its read guard dropped,
   while another thread reads *)
C30_Witness ==
    \E t \in Threads :
        /\ th[t].pc = "get_save_write"
        /\ lock.readers # {}
        /\ t \notin lock.readers

====
